---- MODULE Spec2Model ----
(***************************************************************************)
(* Model of the FX rate engine of binepals/fx:                             *)
(*   src/fx_env/ecb_importer.py  process_ecb_csv_data, store_ecb_data,main *)
(*   src/fx_dashboard.py         get_working_days_in_month,                *)
(*                               calculate_monthly_averages,               *)
(*                               get_closing_rate,                         *)
(*                               create_monthly_rate_summary               *)
(*                                                                         *)
(* Numbers.  A float is a pair <<n, d>>: the rational n/d in lowest terms  *)
(* with d > 0, or one of the IEEE special values NaN = <<0,0>>,            *)
(* +inf = <<1,0>>, -inf = <<-1,0>>.  Arithmetic is exact: the rounding of  *)
(* a binary double (about 1e-16 relative) is not modelled, the decimal     *)
(* rounding the program asks for (round(6), round(2)) is.                  *)
(*                                                                         *)
(* Dates.  A date is <<year, month, day>>.  SQLite holds a date as the     *)
(* text 'YYYY-MM-DD' and compares it as text: the comparison of two stored *)
(* dates is the lexicographic one on the three fields.                     *)
(***************************************************************************)
EXTENDS Integers, Sequences, FiniteSets, Bags, TLC

VARIABLES
    year,           \* dashboard request: year
    month,          \* dashboard request: month
    working_days,   \* last result of get_working_days_in_month
    calls,          \* the calendar call that has returned: 0 none,
                    \* 1 get_working_days_in_month, 2 get_next_working_day
    target_date,    \* argument of get_next_working_day
    next_day,       \* result of get_next_working_day
    loop_count,     \* iterations of the while loop of get_next_working_day
    pcI,            \* importer main(): the stage it has reached
    df,             \* importer: the downloaded table (ecb_df)
    converted_df,   \* importer: the result of process_ecb_csv_data
    store,          \* fx_rates.db, table exchange_rates: a bag of rows
    last_upsert,    \* history: per key, the values of its last committed upsert
    ingested,       \* history: the batch the last runs of main() committed
    pcD,            \* dashboard: the call in progress or just returned
    currencies,     \* dashboard request: the currency list (or None)
    avg_rates,      \* dashboard: DataFrame returned by calculate_monthly_averages
    closing_rates,  \* dashboard: DataFrame returned by get_closing_rate
    summary,        \* dashboard: DataFrame returned by create_monthly_rate_summary
    st_error,       \* dashboard: whether the call reported an error (st.error)
    rates_range,    \* dashboard request: start_date and end_date of get_stored_rates
    stored_rates,   \* dashboard: DataFrame returned by get_stored_rates
    today,          \* dashboard: date.today() as the call read it
    is_complete,    \* dashboard: value returned by is_month_complete
    months          \* dashboard: list returned by get_available_months

calVars == <<year, month, working_days, calls, target_date, next_day, loop_count>>
impVars == <<pcI, df, converted_df, store, last_upsert, ingested>>
dashVars == <<pcD, currencies, avg_rates, closing_rates, summary, st_error,
             rates_range, stored_rates, today, is_complete, months>>
vars == <<year, month, working_days, calls, target_date, next_day, loop_count, pcI, df, converted_df, store,
          last_upsert, ingested, pcD, currencies, avg_rates, closing_rates, summary, st_error,
          rates_range, stored_rates, today, is_complete, months>>

----------------------------------------------------------------------------
(* Bounds of the model *)

\* the calendar is checked for NumYears consecutive years from StartYear
NumYears == 5

\* rows of a table given to process_ecb_csv_data taken alone
MaxRows == 2

\* rows of a table downloaded by a run of main()
MaxFeedRows == 2

\* start_date='2024-08-01' of process_ecb_csv_data: the first year of data
StartYear == 2024

Years == (StartYear .. (StartYear + NumYears - 1)) \cup {1900, 2000, 2100}
Months == 1 .. 12

----------------------------------------------------------------------------
(* Floats: exact rationals with NaN and the infinities *)

Abs(x) == IF x < 0 THEN -x ELSE x

RECURSIVE GCD(_, _)
GCD(a, b) == IF b = 0 THEN a ELSE GCD(b, a % b)

NaN == <<0, 0>>
PosInf == <<1, 0>>
NegInf == <<-1, 0>>

Sign(n) == IF n > 0 THEN 1 ELSE IF n < 0 THEN -1 ELSE 0

\* the float n/d, for any integers n and d (x/0 is an infinity, 0/0 is NaN)
Norm(n, d) ==
    IF d = 0 THEN <<Sign(n), 0>>
    ELSE LET g == GCD(Abs(n), Abs(d))
             s == IF d < 0 THEN -1 ELSE 1
         IN  <<s * (n \div g), s * (d \div g)>>

Zero == <<0, 1>>
One == <<1, 1>>

\* pd.isna(x)
isna(x) == x = NaN

IsFinite(x) == x[2] # 0

\* x == 0 (False for NaN)
IsZero(x) == x = Zero

\* x / y on numpy floats: never raises, x/0 is +-inf, 0/0 and NaN operands give NaN
FDiv(x, y) ==
    IF isna(x) \/ isna(y) THEN NaN
    ELSE IF ~IsFinite(x) /\ ~IsFinite(y) THEN NaN
    ELSE IF ~IsFinite(x) THEN <<x[1] * (IF y[1] < 0 THEN -1 ELSE 1), 0>>
    ELSE IF ~IsFinite(y) THEN Zero
    ELSE IF IsZero(y) THEN <<Sign(x[1]), 0>>
    ELSE LET gn == GCD(Abs(x[1]), Abs(y[1]))
             gd == GCD(x[2], y[2])
         IN  Norm((x[1] \div gn) * (y[2] \div gd), (x[2] \div gd) * (y[1] \div gn))

FMul(x, y) ==
    IF isna(x) \/ isna(y) THEN NaN
    ELSE IF ~IsFinite(x) \/ ~IsFinite(y)
         THEN (IF IsZero(x) \/ IsZero(y) THEN NaN ELSE <<Sign(x[1]) * Sign(y[1]), 0>>)
    ELSE IF IsZero(x) \/ IsZero(y) THEN Zero
    ELSE LET g1 == GCD(Abs(x[1]), y[2])
             g2 == GCD(Abs(y[1]), x[2])
         IN  Norm((x[1] \div g1) * (y[1] \div g2), (x[2] \div g2) * (y[2] \div g1))

FAdd(x, y) ==
    IF isna(x) \/ isna(y) THEN NaN
    ELSE IF ~IsFinite(x) /\ ~IsFinite(y) THEN (IF x = y THEN x ELSE NaN)
    ELSE IF ~IsFinite(x) THEN x
    ELSE IF ~IsFinite(y) THEN y
    ELSE LET g == GCD(x[2], y[2])
         IN  Norm(x[1] * (y[2] \div g) + y[1] * (x[2] \div g), (x[2] \div g) * y[2])

FNeg(x) == <<-x[1], x[2]>>

FSub(x, y) == FAdd(x, FNeg(y))

Pow10(k) == IF k = 0 THEN 1 ELSE IF k = 1 THEN 10 ELSE IF k = 2 THEN 100
            ELSE IF k = 3 THEN 1000 ELSE IF k = 4 THEN 10000
            ELSE IF k = 5 THEN 100000 ELSE 1000000

\* the first k decimal digits of r/d (0 <= r < d) as an integer, and the remainder
RECURSIVE Digits(_, _, _, _)
Digits(r, d, k, acc) ==
    IF k = 0 THEN <<acc, r>>
    ELSE Digits((r * 10) % d, d, k - 1, acc * 10 + ((r * 10) \div d))

\* Series.round(k): the nearest multiple of 10^-k, ties to the even one;
\* NaN, the infinities and the multiples of 10^-k are left as they are
Round(x, k) ==
    IF ~IsFinite(x) THEN x
    ELSE IF Pow10(k) % x[2] = 0 THEN x
    ELSE LET a  == Abs(x[1])
             dg == Digits(a % x[2], x[2], k, a \div x[2])
             up == (2 * dg[2] > x[2]) \/ (2 * dg[2] = x[2] /\ dg[1] % 2 = 1)
             m  == IF up THEN dg[1] + 1 ELSE dg[1]
         IN  Norm(Sign(x[1]) * m, Pow10(k))

----------------------------------------------------------------------------
(* Dates and the calendar (datetime.date, calendar.monthrange) *)

isleap(y) == (y % 4 = 0) /\ ((y % 100 # 0) \/ (y % 400 = 0))

\* calendar.monthrange(year, month)[1]: the number of days of the month
monthrange(y, m) ==
    IF m = 2 THEN (IF isleap(y) THEN 29 ELSE 28)
    ELSE IF m \in {4, 6, 9, 11} THEN 30 ELSE 31

RECURSIVE days_before_month(_, _)
days_before_month(y, m) ==
    IF m = 1 THEN 0 ELSE days_before_month(y, m - 1) + monthrange(y, m - 1)

\* date.toordinal(): days since 0001-01-01, which is day 1
toordinal(dt) ==
    LET y == dt[1] - 1
    IN  y * 365 + (y \div 4) - (y \div 100) + (y \div 400)
        + days_before_month(dt[1], dt[2]) + dt[3]

\* date.weekday(): Monday is 0, Sunday is 6
weekday(dt) == (toordinal(dt) + 6) % 7

\* date + timedelta(days=1)
AddDay(dt) ==
    IF dt[3] < monthrange(dt[1], dt[2]) THEN <<dt[1], dt[2], dt[3] + 1>>
    ELSE IF dt[2] < 12 THEN <<dt[1], dt[2] + 1, 1>>
    ELSE <<dt[1] + 1, 1, 1>>

\* a < b on dates; also the order of the texts 'YYYY-MM-DD' in the store
DateLess(a, b) ==
    \/ a[1] < b[1]
    \/ a[1] = b[1] /\ a[2] < b[2]
    \/ a[1] = b[1] /\ a[2] = b[2] /\ a[3] < b[3]

DateLE(a, b) == a = b \/ DateLess(a, b)

----------------------------------------------------------------------------
(* fx_dashboard.get_working_days_in_month *)

\* current_date.weekday() >= 6 only: Saturday counted as a working day
IsWorkingDay_sat(current_date) == weekday(current_date) < 6

\* current_date.weekday() < 5  # Monday to Friday
IsWorkingDay(current_date) == weekday(current_date) < 5

\* the while loop: current_date runs from first_day while current_date <= last_day
RECURSIVE working_days_loop(_, _, _)
working_days_loop(current_date, last_day, acc) ==
    IF DateLE(current_date, last_day)
    THEN working_days_loop(AddDay(current_date), last_day,
                           IF IsWorkingDay(current_date)
                           THEN Append(acc, current_date) ELSE acc)
    ELSE acc

get_working_days_in_month(y, m) ==
    LET first_day == <<y, m, 1>>
        last_day  == <<y, m, monthrange(y, m)>>
    IN  working_days_loop(first_day, last_day, << >>)

----------------------------------------------------------------------------
(* fx_dashboard.get_next_working_day *)

\* while next_day.weekday() >= 5: next_day += timedelta(days=1);
\* the date the loop ends on and the number of times its body has run
RECURSIVE next_working_day_loop(_, _)
next_working_day_loop(nd, n) ==
    IF weekday(nd) >= 5 THEN next_working_day_loop(AddDay(nd), n + 1)
    ELSE [next_day |-> nd, loop_count |-> n]

\* the search started on target_date itself
get_next_working_day_from_target(td) == next_working_day_loop(td, 0)

\* next_day = target_date + timedelta(days=1), then the loop
get_next_working_day(td) == next_working_day_loop(AddDay(td), 0)

----------------------------------------------------------------------------
(* The downloaded ECB table (ecb_df of main)                               *)
(* A table is [columns, rows]: the set of its currency columns (every      *)
(* column but 'Date') and the sequence of its rows; a row is [Date, cells],*)
(* cells giving the reference rate (currency per 1 EUR) of every column,   *)
(* NaN where the file has no value.                                        *)

Columns == {"GBP", "USD", "JPY", "PLN"}

\* process_ecb_csv_data(df, start_date='2024-08-01')
start_date == <<StartYear, 8, 1>>

\* converted_df is None
None == [none |-> TRUE, data |-> << >>]

DataFrame(converted_data) == [none |-> FALSE, data |-> converted_data]

SeqsUpTo(S, n) == UNION {[1 .. k -> S] : k \in 0 .. n}

----------------------------------------------------------------------------
(* ecb_importer.process_ecb_csv_data *)

\* df = df[df['Date'] >= start_dt]
filter_start(rows) == SelectSeq(rows, LAMBDA row : DateLE(start_date, row.Date))

major_currencies == <<"USD", "JPY", "CHF", "CAD", "AUD", "CNY", "SEK", "NOK", "DKK">>

\* only the first major currency of the table is kept
available_major_first(table_currencies) ==
    LET all == SelectSeq(major_currencies, LAMBDA curr : curr \in table_currencies)
    IN  IF all = << >> THEN << >> ELSE <<all[1]>>

\* available_major = [curr for curr in major_currencies if curr in currencies]
available_major(table_currencies) ==
    SelectSeq(major_currencies, LAMBDA curr : curr \in table_currencies)

\* a zero rate of GBP is let through
gbp_invalid_nan_only(gbp_eur_rate) == isna(gbp_eur_rate)

\* if pd.isna(gbp_eur_rate) or gbp_eur_rate == 0: continue
gbp_invalid(gbp_eur_rate) == isna(gbp_eur_rate) \/ IsZero(gbp_eur_rate)

\* a zero rate of the currency is let through
currency_invalid_nan_only(currency_eur_rate) == isna(currency_eur_rate)

\* if pd.isna(currency_eur_rate) or currency_eur_rate == 0: continue
currency_invalid(currency_eur_rate) ==
    isna(currency_eur_rate) \/ IsZero(currency_eur_rate)

\* the EUR record with rate and inverse_rate exchanged
eur_record_swapped(date_val, gbp_eur_rate) ==
    [date |-> date_val, base_currency |-> "GBP", target_currency |-> "EUR",
     rate |-> gbp_eur_rate, inverse_rate |-> FDiv(One, gbp_eur_rate)]

\* eur_gbp_rate = 1 / gbp_eur_rate, and the record appended for EUR
eur_record(date_val, gbp_eur_rate) ==
    [date |-> date_val, base_currency |-> "GBP", target_currency |-> "EUR",
     rate |-> FDiv(One, gbp_eur_rate), inverse_rate |-> gbp_eur_rate]

\* the ratio taken the other way round
triangulate_swapped(currency_eur_rate, gbp_eur_rate) ==
    FDiv(gbp_eur_rate, currency_eur_rate)

\* the two reference rates multiplied
triangulate_times(currency_eur_rate, gbp_eur_rate) ==
    FMul(currency_eur_rate, gbp_eur_rate)

\* currency_gbp_rate = currency_eur_rate / gbp_eur_rate
triangulate(currency_eur_rate, gbp_eur_rate) == FDiv(currency_eur_rate, gbp_eur_rate)

\* the inverse left equal to the rate
inverse_of_same(currency_gbp_rate) == currency_gbp_rate

\* 1 / currency_gbp_rate if currency_gbp_rate != 0 else 0
inverse_of(currency_gbp_rate) ==
    IF currency_gbp_rate # Zero THEN FDiv(One, currency_gbp_rate) ELSE Zero

currency_record(date_val, currency, currency_gbp_rate) ==
    [date |-> date_val, base_currency |-> "GBP", target_currency |-> currency,
     rate |-> currency_gbp_rate, inverse_rate |-> inverse_of(currency_gbp_rate)]

\* for currency in available_major: the records of one row
RECURSIVE currency_loop(_, _, _, _)
currency_loop(row, gbp_eur_rate, avail, i) ==
    IF i > Len(avail) THEN << >>
    ELSE LET currency == avail[i]
             currency_eur_rate == row.cells[currency]
             rest == currency_loop(row, gbp_eur_rate, avail, i + 1)
         IN  IF currency = "GBP" THEN rest
             ELSE IF currency_invalid(currency_eur_rate) THEN rest
             ELSE <<currency_record(row.Date, currency,
                                    triangulate(currency_eur_rate, gbp_eur_rate))>>
                  \o rest

\* for _, row in df.iterrows(): converted_data, in the order it is appended
RECURSIVE row_loop(_, _, _)
row_loop(rows, avail, i) ==
    IF i > Len(rows) THEN << >>
    ELSE LET row == rows[i]
             gbp_eur_rate == row.cells["GBP"]
             rest == row_loop(rows, avail, i + 1)
         IN  IF gbp_invalid(gbp_eur_rate) THEN rest
             ELSE <<eur_record(row.Date, gbp_eur_rate)>>
                  \o currency_loop(row, gbp_eur_rate, avail, 1)
                  \o rest

process_ecb_csv_data(table) ==
    LET rows == filter_start(table.rows)
        table_currencies == table.columns
    IN  IF "GBP" \notin table_currencies THEN None
        ELSE DataFrame(row_loop(rows, available_major(table_currencies), 1))

----------------------------------------------------------------------------
(* The store: table exchange_rates of fx_rates.db                          *)
(* A row is [date, base_currency, target_currency, rate, inverse_rate];    *)
(* the surrogate id and created_at, which no query of the engine reads,    *)
(* are left out.  The table is a bag, so that two rows with one key would  *)
(* be two elements of it.                                                  *)

\* UNIQUE(date, base_currency, target_currency, rate)
Key_with_rate(r) == <<r.date, r.base_currency, r.target_currency, r.rate>>

\* UNIQUE(date, base_currency, target_currency)
Key(r) == <<r.date, r.base_currency, r.target_currency>>

\* rate REAL NOT NULL, inverse_rate REAL NOT NULL: sqlite3 binds a NaN as NULL
violates_not_null(r) == isna(r.rate) \/ isna(r.inverse_rate)

\* the rows of the bag st that satisfy keep
BagFilter(st, keep(_)) == [r \in {x \in DOMAIN st : keep(x)} |-> st[r]]

\* INSERT with no uniqueness constraint: the conflicting row stays
insert_or_replace_dup(st, r) == st (+) SetToBag({r})

\* INSERT ... ON CONFLICT(date, base_currency, target_currency) DO UPDATE SET
\* rate = excluded.rate: the row in conflict keeps its inverse_rate
insert_or_update_rate(st, r) ==
    IF \E x \in DOMAIN st : Key(x) = Key(r)
    THEN LET updated == {[x EXCEPT !.rate = r.rate] : x \in {y \in DOMAIN st : Key(y) = Key(r)}}
         IN  BagFilter(st, LAMBDA x : Key(x) # Key(r)) (+) SetToBag(updated)
    ELSE st (+) SetToBag({r})

\* INSERT OR REPLACE INTO exchange_rates ... under UNIQUE(date, base, target):
\* the rows in conflict with the new one are deleted, then it is inserted
insert_or_replace(st, r) ==
    BagFilter(st, LAMBDA x : Key(x) # Key(r)) (+) SetToBag({r})

\* for _, row in df.iterrows(): the transaction after rows i .. Len(data);
\* ok is FALSE once a statement has raised
RECURSIVE store_loop(_, _, _)
store_loop(st, data, i) ==
    IF i > Len(data) THEN [ok |-> TRUE, st |-> st]
    ELSE IF violates_not_null(data[i]) THEN [ok |-> FALSE, st |-> st]
    ELSE store_loop(insert_or_replace(st, data[i]), data, i + 1)

\* the batch appended as a whole (DataFrame.to_sql(if_exists='append') on a
\* table without the UNIQUE constraint)
store_ecb_data_append(st, cdf) ==
    IF cdf.none \/ Len(cdf.data) = 0 THEN [ok |-> FALSE, st |-> st]
    ELSE [ok |-> TRUE,
          st |-> st (+) [r \in {cdf.data[i] : i \in 1 .. Len(cdf.data)} |->
                            Cardinality({i \in 1 .. Len(cdf.data) : cdf.data[i] = r})]]

\* store_ecb_data(df): [ok |-> what it returns, st |-> the table afterwards].
\* Nothing is committed unless every statement succeeded and conn.commit() ran.
store_ecb_data(st, cdf) ==
    IF cdf.none \/ Len(cdf.data) = 0 THEN [ok |-> FALSE, st |-> st]
    ELSE LET txn == store_loop(st, cdf.data, 1)
         IN  IF txn.ok THEN [ok |-> TRUE, st |-> txn.st]
             ELSE [ok |-> FALSE, st |-> st]

\* history: the values each key was last upserted with, after the batch data
LastUpsertAfter(last, data) ==
    LET idx == 1 .. Len(data)
        final == {i \in idx : \A j \in idx : j > i => Key(data[j]) # Key(data[i])}
    IN  {r \in last : \A i \in idx : Key(data[i]) # Key(r)}
        \cup {data[i] : i \in final}

\* history: no batch is being followed
NoIngest == [data |-> << >>, st |-> EmptyBag, times |-> 0]

\* history: the batch data has been committed once more; st is the table as the
\* first commit of the batch left it, times is 1 or 2 (2 for: twice or more)
IngestedAfter(ing, data, st) ==
    IF ing.times = 0 THEN [data |-> data, st |-> st, times |-> 1]
    ELSE [ing EXCEPT !.times = 2]

----------------------------------------------------------------------------
(* The feed: the tables a run of main() may download *)

Cells(gbp, usd, jpy, pln) ==
    [c \in Columns |-> IF c = "GBP" THEN gbp ELSE IF c = "USD" THEN usd
                       ELSE IF c = "JPY" THEN jpy ELSE pln]

FeedRows ==
    { [Date |-> <<2024, 8, 1>>,  cells |-> Cells(Norm(117, 100), Norm(110, 100), Norm(160, 1), NaN)],
      [Date |-> <<2024, 8, 30>>, cells |-> Cells(Norm(117, 100), NaN, Norm(160, 1), NaN)],
      [Date |-> <<2024, 8, 30>>, cells |-> Cells(Norm(5, 4), Norm(5, 4), NaN, NaN)],
      [Date |-> <<2024, 8, 31>>, cells |-> Cells(Norm(117, 100), Norm(110, 100), NaN, NaN)] }

FeedTables ==
    {[columns |-> {"GBP", "USD", "JPY"}, rows |-> rs] : rs \in SeqsUpTo(FeedRows, MaxFeedRows)}
    \cup {[columns |-> {"USD", "JPY"}, rows |-> << >>]}

NoTable == [columns |-> {}, rows |-> << >>]

----------------------------------------------------------------------------
(* ecb_importer.main: create_database, download, process, store *)

\* Store is the one step of the importer that changes what the dashboard reads,
\* and the dashboard changes nothing the importer reads: every other step of
\* the importer commutes with the dashboard's.  So a call of the dashboard is
\* started with the importer at rest or about to store, and only the store step
\* is taken between the two reads of create_monthly_rate_summary.
ImporterMayStep == pcD = "idle" \/ (pcD = "summary_avg" /\ pcI = "processed")

ImporterFrame ==
    /\ UNCHANGED <<year, month, working_days, calls, target_date, next_day, loop_count>>
    /\ UNCHANGED <<pcD, currencies, avg_rates, closing_rates, summary, st_error>>
    /\ UNCHANGED <<rates_range, stored_rates, today, is_complete, months>>

\* create_database() returns True: CREATE TABLE IF NOT EXISTS leaves the rows alone
CreateDatabase ==
    /\ ImporterMayStep
    /\ pcI = "idle"
    /\ pcI' = "created"
    /\ UNCHANGED <<df, converted_df, store, last_upsert, ingested>>
    /\ ImporterFrame

\* create_database() returns False, main returns: nothing is left of the run
CreateDatabaseFails ==
    /\ ImporterMayStep
    /\ pcI = "idle"
    /\ UNCHANGED <<pcI, df, converted_df, store, last_upsert, ingested>>
    /\ ImporterFrame

\* ecb_df = download_ecb_csv_data() is a table
Download ==
    /\ ImporterMayStep
    /\ pcI = "created"
    /\ \E t \in FeedTables : df' = t
    /\ pcI' = "downloaded"
    /\ UNCHANGED <<converted_df, store, last_upsert, ingested>>
    /\ ImporterFrame

\* ecb_df is None: main returns
DownloadFails ==
    /\ ImporterMayStep
    /\ pcI = "created"
    /\ pcI' = "idle"
    /\ UNCHANGED <<df, converted_df, store, last_upsert, ingested>>
    /\ ImporterFrame

\* main without 'if converted_df is not None': store_ecb_data is called with
\* whatever process_ecb_csv_data returned
Process_unchecked ==
    /\ ImporterMayStep
    /\ pcI = "downloaded"
    /\ pcI' = "processed" /\ df' = df /\ converted_df' = process_ecb_csv_data(df)
    /\ ingested' = NoIngest
    /\ UNCHANGED <<store, last_upsert>>
    /\ ImporterFrame

\* converted_df = process_ecb_csv_data(ecb_df, start_date='2024-08-01');
\* on None main returns
Process ==
    /\ ImporterMayStep
    /\ pcI = "downloaded"
    /\ LET result == process_ecb_csv_data(df)
       IN  IF result.none
           THEN /\ pcI' = "idle" /\ df' = NoTable /\ converted_df' = None
                /\ ingested' = NoIngest
           ELSE /\ pcI' = "processed" /\ df' = df /\ converted_df' = result
                /\ ingested' = IF result.data = ingested.data THEN ingested
                                ELSE NoIngest
    /\ UNCHANGED <<store, last_upsert>>
    /\ ImporterFrame

\* store_ecb_data(converted_df), the database being reachable; main returns
Store ==
    /\ ImporterMayStep
    /\ pcI = "processed"
    /\ LET r == store_ecb_data(store, converted_df)
       IN  /\ store' = r.st
           /\ last_upsert' = IF r.ok THEN LastUpsertAfter(last_upsert, converted_df.data)
                             ELSE last_upsert
           /\ ingested' = IF r.ok THEN IngestedAfter(ingested, converted_df.data, r.st)
                          ELSE NoIngest
    /\ pcI' = "idle" /\ df' = NoTable /\ converted_df' = None
    /\ ImporterFrame

\* store_ecb_data(converted_df) when sqlite3 raises (database locked or
\* unreadable): the except branch returns False, nothing is committed
StoreFails ==
    /\ ImporterMayStep
    /\ pcI = "processed"
    /\ pcI' = "idle" /\ df' = NoTable /\ converted_df' = None
    /\ UNCHANGED <<store, last_upsert, ingested>>
    /\ ImporterFrame

----------------------------------------------------------------------------
(* The dashboard's requests and DataFrames                                 *)
(* A DataFrame is the sequence of its rows; the empty one is << >>.        *)

\* currencies=None
NoCurrencies == [none |-> TRUE, list |-> << >>]

CurrencyList(l) == [none |-> FALSE, list |-> l]

\* if currencies is not None:  (an empty list gives IN (), which matches no row)
is_not_none(cur) == ~cur.none

\* if currencies:  (None and the empty list are both false)
truthy(cur) == ~cur.none /\ Len(cur.list) > 0

\* the IN clause left out of the query
currency_filter_left_out(cur, r) == TRUE

\* AND target_currency IN (?, ..., ?), added to the query when currencies is true
currency_filter(cur, r) ==
    truthy(cur) => \E i \in 1 .. Len(cur.list) : cur.list[i] = r.target_currency

\* ORDER BY target_currency: the codes in the order of their text
CurrencyOrder ==
    <<"AUD", "CAD", "CHF", "CNY", "DKK", "EUR", "GBP", "JPY", "NOK", "PLN", "SEK", "USD">>

\* calendar.month_name[month]
month_name(m) ==
    <<"January", "February", "March", "April", "May", "June", "July", "August",
      "September", "October", "November", "December">>[m]

\* a missing date of a merged row
NoDate == <<0, 0, 0>>

\* .round(6) of the rate columns, .round(2) of variance_percent
RateDecimals == 6
PercentDecimals == 2

\* SUM(field) over the rows of a bag
RECURSIVE BagSum(_, _)
BagSum(B, field) ==
    IF DOMAIN B = {} THEN Zero
    ELSE LET r == CHOOSE x \in DOMAIN B : TRUE
             rest == [x \in DOMAIN B \ {r} |-> B[x]]
         IN  FAdd(FMul(Norm(B[r], 1), r[field]), BagSum(rest, field))

\* the rows of a bag as a sequence, every copy of a row an element
RECURSIVE BagToSeq(_)
BagToSeq(B) ==
    IF DOMAIN B = {} THEN << >>
    ELSE LET r == CHOOSE x \in DOMAIN B : TRUE
             rest == [x \in DOMAIN B \ {r} |-> B[x]]
         IN  [i \in 1 .. B[r] |-> r] \o BagToSeq(rest)

MinDate(S) == CHOOSE a \in S : \A b \in S : DateLE(a, b)
MaxDate(S) == CHOOSE a \in S : \A b \in S : DateLE(b, a)

\* the concatenation of f(c) for the codes c of CurrencyOrder from position i on
RECURSIVE ByCurrency(_, _)
ByCurrency(f(_), i) ==
    IF i > Len(CurrencyOrder) THEN << >>
    ELSE f(CurrencyOrder[i]) \o ByCurrency(f, i + 1)

----------------------------------------------------------------------------
(* fx_dashboard.calculate_monthly_averages *)

\* the range taken as the calendar month: up to its last day, not its last working day
averages_where_to_month_end(r, range_start, range_end, cur) ==
    /\ r.base_currency = "GBP"
    /\ DateLE(range_start, r.date)
    /\ DateLE(r.date, <<range_end[1], range_end[2], monthrange(range_end[1], range_end[2])>>)
    /\ currency_filter(cur, r)

\* date < ? for the end of the span: the last working day is left out
averages_where_before_last_day(r, range_start, range_end, cur) ==
    /\ r.base_currency = "GBP"
    /\ DateLE(range_start, r.date) /\ DateLess(r.date, range_end)
    /\ currency_filter(cur, r)

\* WHERE base_currency = 'GBP' AND date >= ? AND date <= ? [AND target_currency IN ...]
averages_where(r, range_start, range_end, cur) ==
    /\ r.base_currency = "GBP"
    /\ DateLE(range_start, r.date) /\ DateLE(r.date, range_end)
    /\ currency_filter(cur, r)

\* AVG(ROUND(rate, 6)), AVG(ROUND(inverse_rate, 6)): the mean of rounded rates
average_row_of_rounded(group, c, y, m, n_working_days) ==
    LET n == BagCardinality(group)
        dates == {r.date : r \in DOMAIN group}
        rounded == SetToBag({[r EXCEPT !.rate = Round(@, RateDecimals),
                                       !.inverse_rate = Round(@, RateDecimals)] :
                                r \in DOMAIN group})
    IN  [target_currency |-> c,
         average_rate |-> Round(FDiv(BagSum(rounded, "rate"), Norm(n, 1)), RateDecimals),
         average_inverse_rate |->
             Round(FDiv(BagSum(rounded, "inverse_rate"), Norm(n, 1)), RateDecimals),
         data_points |-> n,
         first_date |-> MinDate(dates),
         last_date |-> MaxDate(dates),
         year |-> y, month |-> m, month_name |-> month_name(m),
         working_days_in_month |-> n_working_days,
         rate_type |-> "Average"]

\* one row of GROUP BY target_currency, with the columns added and rounded
\* when len(df) > 0
average_row(group, c, y, m, n_working_days) ==
    LET n == BagCardinality(group)
        dates == {r.date : r \in DOMAIN group}
    IN  [target_currency |-> c,
         average_rate |-> Round(FDiv(BagSum(group, "rate"), Norm(n, 1)), RateDecimals),
         average_inverse_rate |->
             Round(FDiv(BagSum(group, "inverse_rate"), Norm(n, 1)), RateDecimals),
         data_points |-> n,
         first_date |-> MinDate(dates),
         last_date |-> MaxDate(dates),
         year |-> y, month |-> m, month_name |-> month_name(m),
         working_days_in_month |-> n_working_days,
         rate_type |-> "Average"]

calculate_monthly_averages(st, y, m, cur) ==
    LET wds == get_working_days_in_month(y, m)
    IN  IF wds = << >> THEN << >>
        ELSE LET range_start == wds[1]
                 range_end == wds[Len(wds)]
                 matching == BagFilter(st,
                     LAMBDA r : averages_where(r, range_start, range_end, cur))
                 group(c) == BagFilter(matching, LAMBDA r : r.target_currency = c)
                 row(c) == IF DOMAIN group(c) = {} THEN << >>
                           ELSE <<average_row(group(c), c, y, m, Len(wds))>>
             IN  ByCurrency(row, 1)

----------------------------------------------------------------------------
(* fx_dashboard.get_closing_rate *)

\* date <= ? in place of date = ?: earlier rows match too
closing_where_any_date(r, last_working_day, cur) ==
    /\ r.base_currency = "GBP"
    /\ DateLE(r.date, last_working_day)
    /\ currency_filter(cur, r)

\* WHERE base_currency = 'GBP' AND date = ? [AND target_currency IN ...]
closing_where(r, last_working_day, cur) ==
    /\ r.base_currency = "GBP"
    /\ r.date = last_working_day
    /\ currency_filter(cur, r)

\* df['closing_rate'].round(6), df['closing_inverse_rate'].round(6)
closing_value(x) == Round(x, RateDecimals)

closing_row(r, y, m, last_working_day) ==
    [target_currency |-> r.target_currency,
     closing_rate |-> closing_value(r.rate),
     closing_inverse_rate |-> closing_value(r.inverse_rate),
     closing_date |-> r.date,
     year |-> y, month |-> m, month_name |-> month_name(m),
     last_working_day |-> last_working_day,
     rate_type |-> "Closing"]

get_closing_rate(st, y, m, cur) ==
    LET wds == get_working_days_in_month(y, m)
    IN  IF wds = << >> THEN << >>
        ELSE LET last_working_day == wds[Len(wds)]
                 matching == BagFilter(st,
                     LAMBDA r : closing_where(r, last_working_day, cur))
                 of(c) == BagToSeq(BagFilter(matching, LAMBDA r : r.target_currency = c))
                 rows(c) == [i \in 1 .. Len(of(c)) |->
                                closing_row(of(c)[i], y, m, last_working_day)]
             IN  ByCurrency(rows, 1)

----------------------------------------------------------------------------
(* fx_dashboard.create_monthly_rate_summary *)

\* the columns of a merged row whose side is absent
NoAverage == [average_rate |-> NaN, average_inverse_rate |-> NaN, data_points |-> NaN]
NoClosing == [closing_rate |-> NaN, closing_inverse_rate |-> NaN, closing_date |-> NoDate]

\* avg_rates[['target_currency', 'average_rate', 'average_inverse_rate', 'data_points']]
average_columns(a) ==
    [average_rate |-> a.average_rate, average_inverse_rate |-> a.average_inverse_rate,
     data_points |-> Norm(a.data_points, 1)]

\* closing_rates[['target_currency', 'closing_rate', 'closing_inverse_rate', 'closing_date']]
closing_columns(c) ==
    [closing_rate |-> c.closing_rate, closing_inverse_rate |-> c.closing_inverse_rate,
     closing_date |-> c.closing_date]

\* rate_variance taken as average_rate - closing_rate
summary_row_reversed(code, a, c, y, m) ==
    LET rate_variance == Round(FSub(a.average_rate, c.closing_rate), RateDecimals)
    IN  [target_currency |-> code,
         average_rate |-> a.average_rate,
         average_inverse_rate |-> a.average_inverse_rate,
         data_points |-> a.data_points,
         closing_rate |-> c.closing_rate,
         closing_inverse_rate |-> c.closing_inverse_rate,
         closing_date |-> c.closing_date,
         year |-> y, month |-> m, month_name |-> month_name(m),
         rate_variance |-> rate_variance,
         variance_percent |->
             Round(FMul(FDiv(rate_variance, a.average_rate), Norm(100, 1)), PercentDecimals)]

\* a merged row with year, month, month_name, rate_variance, variance_percent added
summary_row(code, a, c, y, m) ==
    LET rate_variance == Round(FSub(c.closing_rate, a.average_rate), RateDecimals)
    IN  [target_currency |-> code,
         average_rate |-> a.average_rate,
         average_inverse_rate |-> a.average_inverse_rate,
         data_points |-> a.data_points,
         closing_rate |-> c.closing_rate,
         closing_inverse_rate |-> c.closing_inverse_rate,
         closing_date |-> c.closing_date,
         year |-> y, month |-> m, month_name |-> month_name(m),
         rate_variance |-> rate_variance,
         variance_percent |->
             Round(FMul(FDiv(rate_variance, a.average_rate), Norm(100, 1)), PercentDecimals)]

\* how='inner': a row without partner is dropped
merge_inner(avg, clo, y, m) ==
    LET rows(code) ==
            LET L == SelectSeq(avg, LAMBDA a : a.target_currency = code)
                R == SelectSeq(clo, LAMBDA c : c.target_currency = code)
            IN  [k \in 1 .. Len(L) * Len(R) |->
                    summary_row(code,
                                average_columns(L[((k - 1) \div Len(R)) + 1]),
                                closing_columns(R[((k - 1) % Len(R)) + 1]), y, m)]
    IN  ByCurrency(rows, 1)

\* pd.merge(..., on='target_currency', how='outer'): per code, every pair of a
\* left and a right row; a row without partner is kept with the other side NaN
merge_outer(avg, clo, y, m) ==
    LET rows(code) ==
            LET L == SelectSeq(avg, LAMBDA a : a.target_currency = code)
                R == SelectSeq(clo, LAMBDA c : c.target_currency = code)
            IN  IF L = << >>
                THEN [k \in 1 .. Len(R) |->
                         summary_row(code, NoAverage, closing_columns(R[k]), y, m)]
                ELSE IF R = << >>
                THEN [k \in 1 .. Len(L) |->
                         summary_row(code, average_columns(L[k]), NoClosing, y, m)]
                ELSE [k \in 1 .. Len(L) * Len(R) |->
                         summary_row(code,
                                     average_columns(L[((k - 1) \div Len(R)) + 1]),
                                     closing_columns(R[((k - 1) % Len(R)) + 1]), y, m)]
    IN  ByCurrency(rows, 1)

\* the gate passes unless both sets are empty
summary_gate_and(avg, clo) == Len(avg) = 0 /\ Len(clo) = 0

\* if len(avg_rates) == 0 or len(closing_rates) == 0: return pd.DataFrame()
summary_gate(avg, clo) == Len(avg) = 0 \/ Len(clo) = 0

\* create_monthly_rate_summary, from the two DataFrames it has read
create_monthly_rate_summary(avg, clo, y, m) ==
    IF summary_gate(avg, clo) THEN << >> ELSE merge_outer(avg, clo, y, m)

----------------------------------------------------------------------------
(* fx_dashboard.get_stored_rates *)

\* start_date=None, end_date=None
NoRange == [start |-> NoDate, end |-> NoDate]

\* the position of a code in the order of the texts
CurrencyIndex(c) == CHOOSE i \in 1 .. Len(CurrencyOrder) : CurrencyOrder[i] = c

\* a comes before b under ORDER BY date DESC, target_currency
rates_order(a, b) ==
    \/ DateLess(b.date, a.date)
    \/ a.date = b.date
          /\ CurrencyIndex(a.target_currency) < CurrencyIndex(b.target_currency)

\* the rows of a bag in that order, every copy of a row an element
RECURSIVE rates_sorted(_)
rates_sorted(B) ==
    IF DOMAIN B = {} THEN << >>
    ELSE LET r == CHOOSE x \in DOMAIN B : \A y \in DOMAIN B : ~rates_order(y, x)
             rest == [x \in DOMAIN B \ {r} |-> B[x]]
         IN  [i \in 1 .. B[r] |-> r] \o rates_sorted(rest)

\* WHERE 1=1 [AND date >= ?] [AND date <= ?] [AND target_currency IN (...)]:
\* a clause is added when its argument is true (not None, not empty)
stored_rates_where(r, sd, ed, cur) ==
    /\ sd # NoDate => DateLE(sd, r.date)
    /\ ed # NoDate => DateLE(r.date, ed)
    /\ currency_filter(cur, r)

get_stored_rates(st, sd, ed, cur) ==
    rates_sorted(BagFilter(st, LAMBDA r : stored_rates_where(r, sd, ed, cur)))

----------------------------------------------------------------------------
(* fx_dashboard.is_month_complete, get_available_months *)

\* last_day_of_month <= today
is_month_complete_on_last_day(y, m, td) == DateLE(<<y, m, monthrange(y, m)>>, td)

\* return last_day_of_month < today
is_month_complete(y, m, td) ==
    LET last_day_of_month == <<y, m, monthrange(y, m)>>
    IN  DateLess(last_day_of_month, td)

\* one tuple of the list: (year, month, display_name, is_complete), with
\* is_complete = last_day_of_month < today computed in the loop and
\* display_name ending in ' (In Progress)' when it is false
month_entry(y, m, td) ==
    LET last_day_of_month == <<y, m, monthrange(y, m)>>
        complete == DateLess(last_day_of_month, td)
    IN  [year |-> y, month |-> m,
         display_name |-> [month_name |-> month_name(m), year |-> y,
                           in_progress |-> ~complete],
         is_complete |-> complete]

\* ORDER BY year DESC, month DESC of the distinct (year, month) of the dates
RECURSIVE months_sorted(_)
months_sorted(S) ==
    IF S = {} THEN << >>
    ELSE LET q == CHOOSE x \in S : \A y \in S : DateLE(<<y[1], y[2], 1>>, <<x[1], x[2], 1>>)
         IN  <<q>> \o months_sorted(S \ {q})

get_available_months(st, td) ==
    LET found == months_sorted({<<r.date[1], r.date[2]>> : r \in DOMAIN st})
    IN  [k \in 1 .. Len(found) |-> month_entry(found[k][1], found[k][2], td)]

----------------------------------------------------------------------------
(* The dashboard's calls.  A call is made with a request (year, month,     *)
(* currencies); its result is looked at in the state it returns in and is  *)
(* dropped before the next call.  create_monthly_rate_summary reads the    *)
(* store twice, and the importer may commit between the two reads.         *)
(* The history ingested follows consecutive runs of the importer: a call   *)
(* of the dashboard ends it.                                               *)

Requests == {<<StartYear, 8>>, <<StartYear, 9>>}

\* the arguments start_date, end_date of get_stored_rates
DateRanges == {NoRange, [start |-> <<StartYear, 8, 2>>, end |-> <<StartYear, 8, 30>>]}

\* the days date.today() is read on
TodayDates == {<<StartYear, 8, 30>>, <<StartYear, 8, 31>>, <<StartYear, 9, 1>>,
               <<StartYear, 10, 1>>}

CurrencyArgs ==
    {NoCurrencies, CurrencyList(<< >>), CurrencyList(<<"USD">>),
     CurrencyList(<<"JPY", "USD">>)}

\* the value of a read: the except branch reports the error and returns pd.DataFrame()
read_or_empty(db_ok, frame) == IF db_ok THEN frame ELSE << >>

Request(y, m, cur) == year' = y /\ month' = m /\ currencies' = cur

DashboardFrame ==
    /\ UNCHANGED <<working_days, calls, target_date, next_day, loop_count>>
    /\ UNCHANGED <<pcI, df, converted_df, store, last_upsert>>

\* the results of the calls that a call of another function leaves alone
OtherResults == UNCHANGED <<rates_range, stored_rates, today, is_complete, months>>

\* the averages written back: every row of the result is saved as a record of
\* the first day of the month
CallAverages_written_back ==
    /\ pcD = "idle" /\ pcI = "idle"
    /\ \E q \in Requests, cur \in CurrencyArgs, db_ok \in BOOLEAN :
          /\ Request(q[1], q[2], cur)
          /\ avg_rates' = read_or_empty(db_ok,
                              calculate_monthly_averages(store, q[1], q[2], cur))
          /\ st_error' = ~db_ok
    /\ store' = store (+) SetToBag({[date |-> <<avg_rates'[k].year, avg_rates'[k].month, 1>>,
                                      base_currency |-> "GBP",
                                      target_currency |-> avg_rates'[k].target_currency,
                                      rate |-> avg_rates'[k].average_rate,
                                      inverse_rate |-> avg_rates'[k].average_inverse_rate] :
                                        k \in 1 .. Len(avg_rates')})
    /\ pcD' = "averages"
    /\ ingested' = NoIngest
    /\ OtherResults
    /\ UNCHANGED <<closing_rates, summary>>
    /\ UNCHANGED <<working_days, calls, target_date, next_day, loop_count>>
    /\ UNCHANGED <<pcI, df, converted_df, last_upsert>>

CallAverages ==
    /\ pcD = "idle" /\ pcI = "idle"
    /\ \E q \in Requests, cur \in CurrencyArgs, db_ok \in BOOLEAN :
          /\ Request(q[1], q[2], cur)
          /\ avg_rates' = read_or_empty(db_ok,
                              calculate_monthly_averages(store, q[1], q[2], cur))
          /\ st_error' = ~db_ok
    /\ pcD' = "averages"
    /\ ingested' = NoIngest
    /\ OtherResults
    /\ UNCHANGED <<closing_rates, summary>>
    /\ DashboardFrame

CallClosing ==
    /\ pcD = "idle" /\ pcI = "idle"
    /\ \E q \in Requests, cur \in CurrencyArgs, db_ok \in BOOLEAN :
          /\ Request(q[1], q[2], cur)
          /\ closing_rates' = read_or_empty(db_ok, get_closing_rate(store, q[1], q[2], cur))
          /\ st_error' = ~db_ok
    /\ pcD' = "closing"
    /\ ingested' = NoIngest
    /\ OtherResults
    /\ UNCHANGED <<avg_rates, summary>>
    /\ DashboardFrame

\* get_stored_rates(start_date, end_date, currencies)
CallStoredRates ==
    /\ pcD = "idle" /\ pcI = "idle"
    /\ \E range \in DateRanges, cur \in CurrencyArgs, db_ok \in BOOLEAN :
          /\ rates_range' = range /\ currencies' = cur
          /\ stored_rates' = read_or_empty(db_ok,
                                 get_stored_rates(store, range.start, range.end, cur))
          /\ st_error' = ~db_ok
    /\ pcD' = "stored"
    /\ ingested' = NoIngest
    /\ UNCHANGED <<year, month, avg_rates, closing_rates, summary>>
    /\ UNCHANGED <<today, is_complete, months>>
    /\ DashboardFrame

\* is_month_complete(year, month), date.today() being td
CallIsMonthComplete ==
    /\ pcD = "idle" /\ pcI = "idle"
    /\ \E q \in Requests, td \in TodayDates :
          /\ year' = q[1] /\ month' = q[2] /\ today' = td
          /\ is_complete' = is_month_complete(q[1], q[2], td)
    /\ pcD' = "complete"
    /\ ingested' = NoIngest
    /\ UNCHANGED <<currencies, avg_rates, closing_rates, summary, st_error>>
    /\ UNCHANGED <<rates_range, stored_rates, months>>
    /\ DashboardFrame

\* get_available_months(), date.today() being td; on an exception the bare
\* except returns [] and reports nothing
CallAvailableMonths ==
    /\ pcD = "idle" /\ pcI = "idle"
    /\ \E td \in TodayDates, db_ok \in BOOLEAN :
          /\ today' = td
          /\ months' = IF db_ok THEN get_available_months(store, td) ELSE << >>
    /\ pcD' = "months"
    /\ ingested' = NoIngest
    /\ UNCHANGED <<year, month, currencies, avg_rates, closing_rates, summary, st_error>>
    /\ UNCHANGED <<rates_range, stored_rates, is_complete>>
    /\ DashboardFrame

\* create_monthly_rate_summary: avg_rates = calculate_monthly_averages(...)
SummaryReadAverages ==
    /\ pcD = "idle" /\ pcI \in {"idle", "processed"}
    /\ \E q \in Requests, cur \in CurrencyArgs, db_ok \in BOOLEAN :
          /\ Request(q[1], q[2], cur)
          /\ avg_rates' = read_or_empty(db_ok,
                              calculate_monthly_averages(store, q[1], q[2], cur))
          /\ st_error' = ~db_ok
    /\ pcD' = "summary_avg"
    /\ ingested' = NoIngest
    /\ OtherResults
    /\ UNCHANGED <<closing_rates, summary>>
    /\ DashboardFrame

\* closing_rates = get_closing_rate(year, month): the currency list not passed on
SummaryReadClosing_unfiltered ==
    /\ pcD = "summary_avg"
    /\ \E db_ok \in BOOLEAN :
          LET clo == read_or_empty(db_ok, get_closing_rate(store, year, month, NoCurrencies))
          IN  /\ closing_rates' = clo
              /\ summary' = create_monthly_rate_summary(avg_rates, clo, year, month)
              /\ st_error' = (st_error \/ ~db_ok)
    /\ pcD' = "summary"
    /\ UNCHANGED <<year, month, currencies, avg_rates, ingested>>
    /\ OtherResults
    /\ DashboardFrame

\* create_monthly_rate_summary: closing_rates = get_closing_rate(...), and the rest
SummaryReadClosing ==
    /\ pcD = "summary_avg"
    /\ \E db_ok \in BOOLEAN :
          LET clo == read_or_empty(db_ok, get_closing_rate(store, year, month, currencies))
          IN  /\ closing_rates' = clo
              /\ summary' = create_monthly_rate_summary(avg_rates, clo, year, month)
              /\ st_error' = (st_error \/ ~db_ok)
    /\ pcD' = "summary"
    /\ UNCHANGED <<year, month, currencies, avg_rates, ingested>>
    /\ OtherResults
    /\ DashboardFrame

\* the result is dropped (the script is run again)
Discard ==
    /\ pcD \in {"averages", "closing", "summary", "stored", "complete", "months"}
    /\ pcD' = "idle"
    /\ year' = StartYear /\ month' = 8 /\ currencies' = NoCurrencies
    /\ avg_rates' = << >> /\ closing_rates' = << >> /\ summary' = << >>
    /\ st_error' = FALSE
    /\ rates_range' = NoRange /\ stored_rates' = << >>
    /\ today' = NoDate /\ is_complete' = FALSE /\ months' = << >>
    /\ UNCHANGED ingested
    /\ DashboardFrame

----------------------------------------------------------------------------
(* The system: the importer and the dashboard on one database *)

Init ==
    /\ year = StartYear /\ month = 8
    /\ working_days = << >> /\ calls = 0
    /\ target_date = NoDate /\ next_day = NoDate /\ loop_count = 0
    /\ pcI = "idle" /\ df = NoTable /\ converted_df = None
    /\ store = EmptyBag /\ last_upsert = {} /\ ingested = NoIngest
    /\ pcD = "idle" /\ currencies = NoCurrencies
    /\ avg_rates = << >> /\ closing_rates = << >> /\ summary = << >>
    /\ st_error = FALSE
    /\ rates_range = NoRange /\ stored_rates = << >>
    /\ today = NoDate /\ is_complete = FALSE /\ months = << >>

Next ==
    \/ CreateDatabase
    \/ CreateDatabaseFails
    \/ Download
    \/ DownloadFails
    \/ Process
    \/ Store
    \/ StoreFails
    \/ CallAverages
    \/ CallClosing
    \/ CallStoredRates
    \/ CallIsMonthComplete
    \/ CallAvailableMonths
    \/ SummaryReadAverages
    \/ SummaryReadClosing
    \/ Discard

Spec == Init /\ [][Next]_vars

----------------------------------------------------------------------------
(* The converter taken alone: process_ecb_csv_data on a table *)

ConvDates == {<<2024, 7, 31>>, <<2024, 8, 1>>, <<2024, 8, 2>>}

ConvValues(c, cs) ==
    IF c \notin cs THEN {NaN}
    ELSE IF c = "GBP" THEN {NaN, Zero, Norm(117, 100)}
    ELSE IF c = "USD" THEN {NaN, Zero, Norm(110, 100)}
    ELSE IF c = "JPY" THEN {Norm(160, 1)}
    ELSE {Norm(43, 10)}

ConvRows(cs) ==
    {[Date |-> d, cells |-> Cells(g, u, j, p)] :
        d \in ConvDates, g \in ConvValues("GBP", cs), u \in ConvValues("USD", cs),
        j \in ConvValues("JPY", cs), p \in ConvValues("PLN", cs)}

ConvColumnSets ==
    {{"GBP", "USD", "JPY", "PLN"}, {"USD", "JPY", "PLN"}, {"GBP", "JPY", "PLN"}}

ConvTables ==
    UNION {{[columns |-> cs, rows |-> rs] : rs \in SeqsUpTo(ConvRows(cs), MaxRows)} :
              cs \in ConvColumnSets}

ConvInit ==
    /\ year = StartYear /\ month = 8
    /\ working_days = << >> /\ calls = 0
    /\ target_date = NoDate /\ next_day = NoDate /\ loop_count = 0
    /\ pcI = "downloaded" /\ df \in ConvTables /\ converted_df = None
    /\ store = EmptyBag /\ last_upsert = {} /\ ingested = NoIngest
    /\ pcD = "idle" /\ currencies = NoCurrencies
    /\ avg_rates = << >> /\ closing_rates = << >> /\ summary = << >>
    /\ st_error = FALSE
    /\ rates_range = NoRange /\ stored_rates = << >>
    /\ today = NoDate /\ is_complete = FALSE /\ months = << >>

ConvNext == Process

SpecConv == ConvInit /\ [][ConvNext]_vars

----------------------------------------------------------------------------
(* The calendar taken alone: a request (year, month) and its working days *)

CalInit ==
    /\ year \in Years
    /\ month \in Months
    /\ working_days = << >> /\ calls = 0
    /\ target_date = NoDate /\ next_day = NoDate /\ loop_count = 0
    /\ pcI = "idle" /\ df = NoTable /\ converted_df = None
    /\ store = EmptyBag /\ last_upsert = {} /\ ingested = NoIngest
    /\ pcD = "idle" /\ currencies = NoCurrencies
    /\ avg_rates = << >> /\ closing_rates = << >> /\ summary = << >>
    /\ st_error = FALSE
    /\ rates_range = NoRange /\ stored_rates = << >>
    /\ today = NoDate /\ is_complete = FALSE /\ months = << >>

GetWorkingDays ==
    /\ calls = 0
    /\ working_days' = get_working_days_in_month(year, month)
    /\ calls' = 1
    /\ UNCHANGED <<year, month, target_date, next_day, loop_count>>

\* get_next_working_day(target_date) for a day of the requested month
GetNextWorkingDay ==
    /\ calls = 0
    /\ \E d \in 1 .. monthrange(year, month) :
          LET result == get_next_working_day(<<year, month, d>>)
          IN  /\ target_date' = <<year, month, d>>
              /\ next_day' = result.next_day
              /\ loop_count' = result.loop_count
    /\ calls' = 2
    /\ UNCHANGED <<year, month, working_days>>

NextRequest ==
    /\ calls > 0
    /\ \E y \in Years, m \in Months : year' = y /\ month' = m
    /\ working_days' = << >>
    /\ target_date' = NoDate /\ next_day' = NoDate /\ loop_count' = 0
    /\ calls' = 0

CalNext ==
    /\ GetWorkingDays \/ GetNextWorkingDay \/ NextRequest
    /\ UNCHANGED impVars
    /\ UNCHANGED dashVars

SpecCal == CalInit /\ [][CalNext]_vars

----------------------------------------------------------------------------
(* C1 *)

\* the days of the requested month that are Monday to Friday
WeekdaysOf(y, m) ==
    {<<y, m, d>> : d \in {x \in 1 .. monthrange(y, m) : weekday(<<y, m, x>>) \in 0 .. 4}}

\* C1: get_working_days_in_month(year, month) holds exactly the dates of the
\* month whose weekday is Monday to Friday: no Saturday or Sunday, no weekday
\* of the month left out, no duplicate, strictly ascending; February 2024
\* yields 21 dates.
C1_WorkingDaysExact ==
    calls = 1 =>
        /\ \A i \in 1 .. Len(working_days) :
              /\ working_days[i][1] = year /\ working_days[i][2] = month
              /\ working_days[i][3] \in 1 .. monthrange(year, month)
              /\ weekday(working_days[i]) \in 0 .. 4
        /\ \A dt \in WeekdaysOf(year, month) :
              \E i \in 1 .. Len(working_days) : working_days[i] = dt
        /\ \A i \in 1 .. Len(working_days) - 1 :
              DateLess(working_days[i], working_days[i + 1])
        /\ Len(working_days) = Cardinality(WeekdaysOf(year, month))
        /\ (year = 2024 /\ month = 2 => Len(working_days) = 21)

\* February 2024 has been asked for and answered with 21 dates, the 29th the last
C1_Witness ==
    /\ calls = 1 /\ year = 2024 /\ month = 2
    /\ Len(working_days) = 21
    /\ working_days[21] = <<2024, 2, 29>>

----------------------------------------------------------------------------
(* The converter's input and output, as the claims C4 to C9 speak of them *)

\* a rate that is present and not zero
ValidRate(x) == x # NaN /\ x # Zero

\* the rows of the table that are converted: those from start_date on
ScopeRows == {i \in 1 .. Len(df.rows) : DateLE(start_date, df.rows[i].Date)}

\* the converted rows whose base currency has a valid rate
BaseValidRows == {i \in ScopeRows : ValidRate(df.rows[i].cells["GBP"])}

\* process_ecb_csv_data has returned a DataFrame for df
Processed == pcI = "processed" /\ ~converted_df.none

Emitted == converted_df.data

\* the emitted records of one date and target currency
EmittedAt(d, c) ==
    {k \in 1 .. Len(Emitted) : Emitted[k].date = d /\ Emitted[k].target_currency = c}

TableDates == {df.rows[i].Date : i \in 1 .. Len(df.rows)}

\* the major currencies that are columns of the table
MajorInTable ==
    {major_currencies[i] : i \in 1 .. Len(major_currencies)} \cap df.columns

\* the table of the specification's example: 2024-08-01, GBP 1.17, USD 1.10, JPY 160.0
ExampleRow ==
    [Date |-> <<2024, 8, 1>>,
     cells |-> Cells(Norm(117, 100), Norm(110, 100), Norm(160, 1), Norm(43, 10))]

\* C4: every record emitted for a currency other than the reference currency
\* has rate = referenceRate[currency] / referenceRate[base] of a converted row
\* of its date (rate * referenceRate[base] = referenceRate[currency]); on the
\* example table USD gets 1.10/1.17 and JPY 160.0/1.17.
C4_RateIsCurrencyOverBase ==
    Processed =>
        /\ \A k \in 1 .. Len(Emitted) :
              Emitted[k].target_currency # "EUR" =>
                 \E i \in BaseValidRows :
                    /\ df.rows[i].Date = Emitted[k].date
                    /\ ValidRate(df.rows[i].cells[Emitted[k].target_currency])
                    /\ FMul(Emitted[k].rate, df.rows[i].cells["GBP"])
                          = df.rows[i].cells[Emitted[k].target_currency]
        /\ df.rows = <<ExampleRow>> /\ df.columns = Columns =>
              /\ \A k \in EmittedAt(<<2024, 8, 1>>, "USD") : Emitted[k].rate = Norm(110, 117)
              /\ \A k \in EmittedAt(<<2024, 8, 1>>, "JPY") : Emitted[k].rate = Norm(16000, 117)

\* the example table has been converted: USD at 110/117 and JPY at 16000/117
C4_Witness ==
    /\ Processed /\ df.rows = <<ExampleRow>> /\ df.columns = Columns
    /\ \E k \in 1 .. Len(Emitted) :
          Emitted[k].target_currency = "USD" /\ Emitted[k].rate = Norm(110, 117)
    /\ \E k \in 1 .. Len(Emitted) :
          Emitted[k].target_currency = "JPY" /\ Emitted[k].rate = Norm(16000, 117)

WithoutRow(table, i) ==
    [table EXCEPT !.rows = SubSeq(table.rows, 1, i - 1)
                           \o SubSeq(table.rows, i + 1, Len(table.rows))]

\* C8: a row whose base rate is missing (NaN) or zero yields no record at all,
\* synthetic or triangulated, the conversion still returns its DataFrame, and
\* the records emitted are those of the table without that row.
C8_InvalidBaseDateSkipped ==
    Processed =>
        /\ \A d \in TableDates :
              (\A i \in ScopeRows : df.rows[i].Date = d => ~ValidRate(df.rows[i].cells["GBP"]))
                 => \A k \in 1 .. Len(Emitted) : Emitted[k].date # d
        /\ \A i \in 1 .. Len(df.rows) :
              ~ValidRate(df.rows[i].cells["GBP"])
                 => converted_df = process_ecb_csv_data(WithoutRow(df, i))

\* the base rate is zero on one date, whose USD and JPY rates are valid; no
\* record has that date, and the other date has its records
C8_Witness ==
    /\ Processed
    /\ \E i \in ScopeRows, j \in BaseValidRows :
          /\ df.rows[i].cells["GBP"] = Zero
          /\ ValidRate(df.rows[i].cells["USD"]) /\ ValidRate(df.rows[i].cells["JPY"])
          /\ df.rows[i].Date # df.rows[j].Date
          /\ \A k \in 1 .. Len(Emitted) : Emitted[k].date # df.rows[i].Date
          /\ EmittedAt(df.rows[j].Date, "EUR") # {}

----------------------------------------------------------------------------
(* C2, C3: the dashboard's closing rates and summary *)

\* the last day of the month that is Monday to Friday
LastWorkingDayOf(y, m) == MaxDate(WeekdaysOf(y, m))

\* the rows of the store for the base currency, a target currency and a date
StoredAt(d, c) ==
    {r \in DOMAIN store :
        r.base_currency = "GBP" /\ r.target_currency = c /\ r.date = d}

\* get_closing_rate has returned without error, alone or inside the summary,
\* and the store is as it was read
ClosingReturned == pcD \in {"closing", "summary"} /\ ~st_error

\* C2 as claimed: an entry is returned for a currency only if the store holds a
\* GBP record for it dated exactly the month's last working day, and the
\* closing rate returned is that record's rate.
C2_ClosingIsStoredRate ==
    ClosingReturned =>
        \A k \in 1 .. Len(closing_rates) :
            \E r \in StoredAt(LastWorkingDayOf(year, month), closing_rates[k].target_currency) :
                closing_rates[k].closing_rate = r.rate

\* C2, amended: an entry is returned for a currency only if the store holds a
\* GBP record for it dated exactly the month's last working day, and the
\* closing rate returned is that record's rate rounded to 6 decimal places; a
\* currency whose records are all on earlier dates gets no entry.
C2_ClosingOnlyOnLastWorkingDay ==
    ClosingReturned =>
        /\ \A k \in 1 .. Len(closing_rates) :
              \E r \in StoredAt(LastWorkingDayOf(year, month),
                                closing_rates[k].target_currency) :
                 /\ closing_rates[k].closing_date = r.date
                 /\ closing_rates[k].closing_rate = Round(r.rate, RateDecimals)
        /\ \A i \in 1 .. Len(CurrencyOrder) :
              StoredAt(LastWorkingDayOf(year, month), CurrencyOrder[i]) = {}
                 => \A k \in 1 .. Len(closing_rates) :
                       closing_rates[k].target_currency # CurrencyOrder[i]

\* August 2024 is asked for; USD has a record on 1 August and none on the
\* 30th, JPY has one on the 30th: JPY is returned, at 136.752137, and USD is not
C2_Witness ==
    /\ ClosingReturned /\ pcD = "closing" /\ year = 2024 /\ month = 8
    /\ ~truthy(currencies)
    /\ StoredAt(<<2024, 8, 1>>, "USD") # {}
    /\ StoredAt(<<2024, 8, 30>>, "USD") = {}
    /\ \E k \in 1 .. Len(closing_rates) :
          /\ closing_rates[k].target_currency = "JPY"
          /\ closing_rates[k].closing_rate = Norm(136752137, 1000000)
    /\ \A k \in 1 .. Len(closing_rates) : closing_rates[k].target_currency # "USD"

\* C3: create_monthly_rate_summary returns the empty DataFrame whenever the
\* averages or the closing rates it read are empty, even if the other set is
\* not; it returns rows when, and only when, both sets have at least one row.
C3_SummaryEmptyUnlessBoth ==
    pcD = "summary" =>
        /\ (Len(avg_rates) = 0 \/ Len(closing_rates) = 0) => summary = << >>
        /\ (Len(avg_rates) > 0 /\ Len(closing_rates) > 0) => Len(summary) > 0

\* averages were found and no closing rate: the summary is empty
C3_Witness ==
    /\ pcD = "summary" /\ ~st_error
    /\ Len(avg_rates) > 0 /\ Len(closing_rates) = 0
    /\ summary = << >>

----------------------------------------------------------------------------
(* C10: the store under store_ecb_data *)

\* C10: after any sequence of store_ecb_data calls, batches that repeat a key
\* included, the store holds at most one record per (date, base_currency,
\* target_currency), and that record carries the values of the key's last upsert.
C10_OneRecordPerKeyLastUpsert ==
    /\ \A r \in DOMAIN store : store[r] = 1
    /\ \A r1, r2 \in DOMAIN store : Key(r1) = Key(r2) => r1 = r2
    /\ DOMAIN store = last_upsert

\* the key (2024-08-30, GBP, EUR) has been upserted with rate 100/117 (by the
\* row that brought JPY) and then with rate 4/5 (by the row that brought USD):
\* one record is held for it, with rate 4/5
C10_Witness ==
    /\ StoredAt(<<2024, 8, 30>>, "JPY") # {}
    /\ StoredAt(<<2024, 8, 30>>, "USD") # {}
    /\ \E r \in StoredAt(<<2024, 8, 30>>, "EUR") : r.rate = Norm(4, 5)
    /\ Cardinality(StoredAt(<<2024, 8, 30>>, "EUR")) = 1

----------------------------------------------------------------------------
(* C11: store_ecb_data on a batch it has stored already *)

\* C11: once main() has committed a batch and a later run commits the same
\* batch again, the table holds exactly the rows (date, base_currency,
\* target_currency, rate, inverse_rate) it held after the first commit: no row
\* is held twice, no key has two rows and no value has changed.
C11_ReingestLeavesStore ==
    ingested.times = 2 =>
        /\ store = ingested.st
        /\ \A r \in DOMAIN store : store[r] = 1
        /\ \A r1, r2 \in DOMAIN store : Key(r1) = Key(r2) => r1 = r2
        /\ \A i \in 1 .. Len(ingested.data) :
              \E r \in DOMAIN store : Key(r) = Key(ingested.data[i])

\* a batch that names the key (2024-08-30, GBP, EUR) twice and was stored into
\* a table that held other rows has been committed a second time
C11_Witness ==
    /\ ingested.times = 2 /\ store = ingested.st
    /\ \E i, j \in 1 .. Len(ingested.data) :
          i < j /\ Key(ingested.data[i]) = Key(ingested.data[j])
    /\ \E r \in DOMAIN store :
          \A i \in 1 .. Len(ingested.data) : Key(r) # Key(ingested.data[i])

----------------------------------------------------------------------------
(* C12: the aggregates of calculate_monthly_averages *)

FirstWorkingDayOf(y, m) == MinDate(WeekdaysOf(y, m))

\* the rows of the store for the base currency and a target currency dated
\* from the first to the last working day of the requested month, both included
SpanRows(c) ==
    {r \in DOMAIN store :
        /\ r.base_currency = "GBP" /\ r.target_currency = c
        /\ DateLE(FirstWorkingDayOf(year, month), r.date)
        /\ DateLE(r.date, LastWorkingDayOf(year, month))}

\* the currency is asked for: no list was given, or the list names it
Requested(c) ==
    truthy(currencies) => \E i \in 1 .. Len(currencies.list) : currencies.list[i] = c

RECURSIVE SumOver(_, _)
SumOver(S, field) ==
    IF S = {} THEN Zero
    ELSE LET r == CHOOSE x \in S : TRUE
         IN  FAdd(r[field], SumOver(S \ {r}, field))

\* the arithmetic mean of a field over a non-empty set of rows
MeanOver(S, field) == FDiv(SumOver(S, field), Norm(Cardinality(S), 1))

\* calculate_monthly_averages has returned without error and the store is as
\* it was read
AveragesReturned == pcD = "averages" /\ ~st_error

\* the rows of the result for a currency
AverageRowsOf(c) == {k \in 1 .. Len(avg_rates) : avg_rates[k].target_currency = c}

\* C12 as claimed: the aggregate of a currency is computed over exactly the
\* stored records of the base currency and that currency dated from the first to
\* the last working day of the month: average_rate and average_inverse_rate are
\* the arithmetic means over that set, data_points its size, first_date and
\* last_date its least and greatest date.
C12_AveragesAreMeans ==
    AveragesReturned =>
        \A i \in 1 .. Len(CurrencyOrder) :
            LET c == CurrencyOrder[i]
                S == SpanRows(c)
            IN  \A k \in AverageRowsOf(c) :
                    /\ S # {}
                    /\ avg_rates[k].average_rate = MeanOver(S, "rate")
                    /\ avg_rates[k].average_inverse_rate = MeanOver(S, "inverse_rate")
                    /\ avg_rates[k].data_points = Cardinality(S)
                    /\ avg_rates[k].first_date = MinDate({r.date : r \in S})
                    /\ avg_rates[k].last_date = MaxDate({r.date : r \in S})

\* C12, amended: the aggregate of a currency is computed over exactly the stored
\* records of the base currency and that currency dated from the first to the
\* last working day of the month, both included: average_rate and
\* average_inverse_rate are the arithmetic means of rate and inverse_rate over
\* that set rounded to 6 decimal places, data_points is its size, first_date
\* and last_date are its least and greatest date; a requested currency with
\* such records has exactly one aggregate.
C12_AveragesAreRoundedMeans ==
    AveragesReturned =>
        \A i \in 1 .. Len(CurrencyOrder) :
            LET c == CurrencyOrder[i]
                S == SpanRows(c)
            IN  /\ \A k \in AverageRowsOf(c) :
                      /\ S # {}
                      /\ avg_rates[k].average_rate
                            = Round(MeanOver(S, "rate"), RateDecimals)
                      /\ avg_rates[k].average_inverse_rate
                            = Round(MeanOver(S, "inverse_rate"), RateDecimals)
                      /\ avg_rates[k].data_points = Cardinality(S)
                      /\ avg_rates[k].first_date = MinDate({r.date : r \in S})
                      /\ avg_rates[k].last_date = MaxDate({r.date : r \in S})
                /\ (S # {} /\ Requested(c)) => Cardinality(AverageRowsOf(c)) = 1

\* August 2024 is asked for; USD has records on 1 August (110/117), on the 30th
\* (1) and on Saturday the 31st: the aggregate counts the first two, with
\* average 227/234 returned as 0.970085
C12_Witness ==
    /\ AveragesReturned /\ year = 2024 /\ month = 8
    /\ StoredAt(<<2024, 8, 31>>, "USD") # {}
    /\ \E k \in AverageRowsOf("USD") :
          /\ avg_rates[k].data_points = 2
          /\ avg_rates[k].average_rate = Norm(970085, 1000000)
          /\ avg_rates[k].first_date = <<2024, 8, 1>>
          /\ avg_rates[k].last_date = <<2024, 8, 30>>

----------------------------------------------------------------------------
(* C13: which currencies calculate_monthly_averages returns *)

\* C13: a currency with no record in the month's working-day span has no
\* aggregate in the result of calculate_monthly_averages; every aggregate of the
\* result has data_points > 0 and counts at least one stored record; and when
\* a list of currencies is asked for, every aggregate is of a currency of the list.
C13_OnlyCurrenciesWithRecords ==
    AveragesReturned =>
        /\ \A i \in 1 .. Len(CurrencyOrder) :
              SpanRows(CurrencyOrder[i]) = {} => AverageRowsOf(CurrencyOrder[i]) = {}
        /\ \A k \in 1 .. Len(avg_rates) :
              /\ avg_rates[k].data_points > 0
              /\ SpanRows(avg_rates[k].target_currency) # {}
              /\ Requested(avg_rates[k].target_currency)

\* JPY and USD are asked for; the span holds records of EUR and USD and none
\* of JPY: the result is the one aggregate of USD
C13_Witness ==
    /\ AveragesReturned
    /\ currencies = CurrencyList(<<"JPY", "USD">>)
    /\ SpanRows("EUR") # {} /\ SpanRows("JPY") = {} /\ SpanRows("USD") # {}
    /\ Len(avg_rates) = 1
    /\ avg_rates[1].target_currency = "USD" /\ avg_rates[1].data_points = 1

----------------------------------------------------------------------------
(* C14: the rows of create_monthly_rate_summary *)

\* the rows of the closing rates and of the summary for a currency
ClosingRowsOf(c) == {k \in 1 .. Len(closing_rates) : closing_rates[k].target_currency = c}
SummaryRowsOf(c) == {k \in 1 .. Len(summary) : summary[k].target_currency = c}

\* create_monthly_rate_summary has returned, both sets it read having rows
SummaryJoined == pcD = "summary" /\ Len(avg_rates) > 0 /\ Len(closing_rates) > 0

\* C14: when both the averages and the closing rates are non-empty, the summary
\* has a row for every currency of either set and for no other currency; the
\* row of a currency that is only in the averages has null closing_rate,
\* closing_inverse_rate and closing_date, the row of a currency that is only in
\* the closing rates has null average_rate, average_inverse_rate and
\* data_points, and the columns of the side that is present are that side's.
C14_OuterJoinOfBothSets ==
    SummaryJoined =>
        \A i \in 1 .. Len(CurrencyOrder) :
            LET c == CurrencyOrder[i]
                A == AverageRowsOf(c)
                C == ClosingRowsOf(c)
            IN  /\ (A # {} \/ C # {}) <=> SummaryRowsOf(c) # {}
                /\ \A k \in SummaryRowsOf(c) :
                      /\ C = {} =>
                            /\ isna(summary[k].closing_rate)
                            /\ isna(summary[k].closing_inverse_rate)
                            /\ summary[k].closing_date = NoDate
                      /\ A = {} =>
                            /\ isna(summary[k].average_rate)
                            /\ isna(summary[k].average_inverse_rate)
                            /\ isna(summary[k].data_points)
                      /\ A # {} =>
                            \E a \in A :
                               /\ summary[k].average_rate = avg_rates[a].average_rate
                               /\ summary[k].average_inverse_rate
                                     = avg_rates[a].average_inverse_rate
                               /\ summary[k].data_points = Norm(avg_rates[a].data_points, 1)
                      /\ C # {} =>
                            \E b \in C :
                               /\ summary[k].closing_rate = closing_rates[b].closing_rate
                               /\ summary[k].closing_inverse_rate
                                     = closing_rates[b].closing_inverse_rate
                               /\ summary[k].closing_date = closing_rates[b].closing_date

\* the averages were read with EUR and JPY in the span, then the importer
\* committed USD for the last working day and the closing rates were read: USD
\* has a row with its closing rate and null averages, JPY a row with both sides
C14_Witness ==
    /\ SummaryJoined /\ ~st_error
    /\ AverageRowsOf("USD") = {} /\ ClosingRowsOf("USD") # {}
    /\ \E k \in SummaryRowsOf("USD") :
          /\ isna(summary[k].average_rate) /\ isna(summary[k].data_points)
          /\ summary[k].closing_rate = One
    /\ \E k \in SummaryRowsOf("JPY") :
          ~isna(summary[k].average_rate) /\ ~isna(summary[k].closing_rate)

\* a currency that is only in the averages: USD has a record on 1 August and
\* none on the last working day, its row has null closing columns
C14_AverageOnlyCase ==
    /\ SummaryJoined /\ ~st_error
    /\ AverageRowsOf("USD") # {} /\ ClosingRowsOf("USD") = {}
    /\ \E k \in SummaryRowsOf("USD") :
          isna(summary[k].closing_rate) /\ summary[k].closing_date = NoDate

----------------------------------------------------------------------------
(* C15: rate_variance *)

\* C15: in every row of the summary, rate_variance is closing_rate minus
\* average_rate when the row has both, and is null when the row's closing_rate
\* or its average_rate is missing.
C15_VarianceIsClosingMinusAverage ==
    pcD = "summary" =>
        \A k \in 1 .. Len(summary) :
            /\ (~isna(summary[k].closing_rate) /\ ~isna(summary[k].average_rate)) =>
                  /\ summary[k].rate_variance
                        = FSub(summary[k].closing_rate, summary[k].average_rate)
                  /\ FAdd(summary[k].average_rate, summary[k].rate_variance)
                        = summary[k].closing_rate
            /\ (isna(summary[k].closing_rate) \/ isna(summary[k].average_rate)) =>
                  isna(summary[k].rate_variance)

\* USD has average 0.970085 and closing rate 1: its rate_variance is 0.029915;
\* JPY has no closing rate: its rate_variance is null
C15_Witness ==
    /\ pcD = "summary" /\ ~st_error
    /\ \E k \in SummaryRowsOf("USD") :
          /\ summary[k].average_rate = Norm(970085, 1000000)
          /\ summary[k].closing_rate = One
          /\ summary[k].rate_variance = Norm(29915, 1000000)
    /\ \E k \in SummaryRowsOf("JPY") :
          /\ ~isna(summary[k].average_rate) /\ isna(summary[k].closing_rate)
          /\ isna(summary[k].rate_variance)

----------------------------------------------------------------------------
(* One run of main() from a downloaded table, and the dashboard: the steps *)
(* of the system after the download                                        *)

AfterDownloadNext ==
    \/ Process
    \/ Store
    \/ StoreFails
    \/ CallAverages
    \/ CallClosing
    \/ SummaryReadAverages
    \/ SummaryReadClosing
    \/ Discard

----------------------------------------------------------------------------
(* C16: variance_percent *)

\* a table whose USD rates are below the sixth decimal: 1.17e-7 and 9.36e-7
\* per EUR, which is 1e-7 and 8e-7 per GBP
SmallRateRows ==
    { [Date |-> <<2024, 8, 1>>,
       cells |-> Cells(Norm(117, 100), Norm(117, 1000000000), NaN, NaN)],
      [Date |-> <<2024, 8, 30>>,
       cells |-> Cells(Norm(117, 100), Norm(936, 1000000000), NaN, NaN)] }

SmallRateTables ==
    {[columns |-> {"GBP", "USD", "JPY"}, rows |-> rs] :
        rs \in SeqsUpTo(SmallRateRows, MaxFeedRows)}

SmallRateInit ==
    /\ year = StartYear /\ month = 8
    /\ working_days = << >> /\ calls = 0
    /\ target_date = NoDate /\ next_day = NoDate /\ loop_count = 0
    /\ pcI = "downloaded" /\ df \in SmallRateTables /\ converted_df = None
    /\ store = EmptyBag /\ last_upsert = {} /\ ingested = NoIngest
    /\ pcD = "idle" /\ currencies = NoCurrencies
    /\ avg_rates = << >> /\ closing_rates = << >> /\ summary = << >>
    /\ st_error = FALSE
    /\ rates_range = NoRange /\ stored_rates = << >>
    /\ today = NoDate /\ is_complete = FALSE /\ months = << >>

SpecSmallRates == SmallRateInit /\ [][AfterDownloadNext]_vars

\* C16: in every row of the summary, variance_percent is
\* 100 * rate_variance / average_rate when average_rate is present and not
\* zero; when average_rate is zero or missing, variance_percent is null: it is
\* neither an infinity nor the result of a division by zero.
C16_VariancePercentGuarded ==
    pcD = "summary" =>
        \A k \in 1 .. Len(summary) :
            /\ (~isna(summary[k].average_rate) /\ ~IsZero(summary[k].average_rate)) =>
                  summary[k].variance_percent
                     = FDiv(FMul(Norm(100, 1), summary[k].rate_variance),
                            summary[k].average_rate)
            /\ (isna(summary[k].average_rate) \/ IsZero(summary[k].average_rate)) =>
                  /\ isna(summary[k].variance_percent)
                  /\ summary[k].variance_percent \notin {PosInf, NegInf}

\* what the code returns on the table of small rates: USD has average_rate 0
\* (0.00000045 rounded), closing_rate 0.000001 and variance_percent +infinity
C16_InfinitePercent ==
    /\ pcD = "summary" /\ ~st_error
    /\ \E k \in SummaryRowsOf("USD") :
          /\ summary[k].average_rate = Zero
          /\ summary[k].closing_rate = Norm(1, 1000000)
          /\ summary[k].rate_variance = Norm(1, 1000000)
          /\ summary[k].variance_percent = PosInf

----------------------------------------------------------------------------
(* C17: a store that cannot be read *)

\* the DataFrame the call in progress has returned
Returned ==
    IF pcD = "averages" THEN avg_rates
    ELSE IF pcD = "closing" THEN closing_rates
    ELSE summary

\* C17: when the store cannot be read, calculate_monthly_averages,
\* get_closing_rate and create_monthly_rate_summary fail with an error the
\* caller is given: the caller does not get the empty DataFrame that a readable
\* store without matching record gives.
C17_StoreFailureIsReported ==
    (pcD \in {"averages", "closing", "summary"} /\ st_error) => Returned # << >>

\* what the code does: the read of the averages failed on a store that holds
\* records of the month, and create_monthly_rate_summary returned the empty
\* DataFrame
C17_FailureReturnsEmpty ==
    /\ pcD = "summary" /\ st_error
    /\ year = 2024 /\ month = 8 /\ SpanRows("EUR") # {}
    /\ summary = << >>

----------------------------------------------------------------------------
(* C18: the two directions of the triangulation *)

----------------------------------------------------------------------------
(* C19: the sign and the finiteness of the rates *)

\* a table with a negative and an infinite reference rate
SignedRows ==
    { [Date |-> <<2024, 8, 1>>,
       cells |-> Cells(Norm(117, 100), Norm(-110, 100), Norm(160, 1), NaN)],
      [Date |-> <<2024, 8, 30>>,
       cells |-> Cells(Norm(117, 100), Norm(110, 100), PosInf, NaN)],
      [Date |-> <<2024, 8, 2>>,
       cells |-> Cells(PosInf, Norm(110, 100), NaN, NaN)] }

SignedTables ==
    {[columns |-> {"GBP", "USD", "JPY"}, rows |-> rs] :
        rs \in SeqsUpTo(SignedRows, MaxFeedRows)}

SignedInit ==
    /\ year = StartYear /\ month = 8
    /\ working_days = << >> /\ calls = 0
    /\ target_date = NoDate /\ next_day = NoDate /\ loop_count = 0
    /\ pcI = "downloaded" /\ df \in SignedTables /\ converted_df = None
    /\ store = EmptyBag /\ last_upsert = {} /\ ingested = NoIngest
    /\ pcD = "idle" /\ currencies = NoCurrencies
    /\ avg_rates = << >> /\ closing_rates = << >> /\ summary = << >>
    /\ st_error = FALSE
    /\ rates_range = NoRange /\ stored_rates = << >>
    /\ today = NoDate /\ is_complete = FALSE /\ months = << >>

SpecSigned == SignedInit /\ [][AfterDownloadNext]_vars

\* x > 0 and x is not an infinity
PositiveFinite(x) == IsFinite(x) /\ x[1] > 0

\* C19: every record the converter emits, and every record the store holds,
\* has a strictly positive and finite rate and a strictly positive and finite
\* inverse_rate, whatever the table.
C19_RatesPositiveFinite ==
    /\ Processed =>
          \A k \in 1 .. Len(Emitted) :
              PositiveFinite(Emitted[k].rate) /\ PositiveFinite(Emitted[k].inverse_rate)
    /\ \A r \in DOMAIN store :
          PositiveFinite(r.rate) /\ PositiveFinite(r.inverse_rate)

\* what the code does: the store holds the USD record of 2024-08-01 with the
\* rate -110/117
C19_NegativeRateStored ==
    \E r \in StoredAt(<<2024, 8, 1>>, "USD") :
        r.rate = Norm(-110, 117) /\ r.inverse_rate = Norm(-117, 110)

\* what the code does: the store holds the JPY record of 2024-08-30 with an
\* infinite rate and the inverse_rate 0
C19_InfiniteRateStored ==
    \E r \in StoredAt(<<2024, 8, 30>>, "JPY") :
        r.rate = PosInf /\ r.inverse_rate = Zero

----------------------------------------------------------------------------
(* C20: get_next_working_day *)

\* C20: get_next_working_day(d) ends after at most 7 iterations of its loop and
\* returns the earliest date strictly after d that is Monday to Friday: the
\* result is after d and never d, it is a working day, every date between d and
\* it is a Saturday or a Sunday, and it is at most 3 days after d.
C20_NextWorkingDayIsEarliest ==
    calls = 2 =>
        /\ loop_count <= 7
        /\ DateLess(target_date, next_day) /\ next_day # target_date
        /\ weekday(next_day) \in 0 .. 4
        /\ \A o \in (toordinal(target_date) + 1) .. (toordinal(next_day) - 1) :
              (o + 6) % 7 \in {5, 6}
        /\ toordinal(next_day) - toordinal(target_date) \in 1 .. 3
        /\ loop_count = toordinal(next_day) - toordinal(target_date) - 1

\* Friday 30 August 2024 gives Monday 2 September after 2 iterations
C20_Witness ==
    /\ calls = 2 /\ target_date = <<2024, 8, 30>> /\ weekday(target_date) = 4
    /\ next_day = <<2024, 9, 2>> /\ loop_count = 2

----------------------------------------------------------------------------
(* C21: is_month_complete, get_available_months *)

\* the first day of the month after month m of year y
FirstOfNextMonth(y, m) == IF m = 12 THEN <<y + 1, 1, 1>> ELSE <<y, m + 1, 1>>

\* the last calendar day of month m of year y: the day before the next month
LastCalendarDay(y, m) == CHOOSE d \in {<<y, m, k>> : k \in 28 .. 31} :
                             toordinal(d) + 1 = toordinal(FirstOfNextMonth(y, m))

\* C21: is_month_complete(year, month) is true exactly when the last calendar
\* day of the month is strictly before today; on that last day itself the
\* month is reported as not complete; and each entry of get_available_months
\* is labelled complete under the same condition (and ' (In Progress)'
\* otherwise).
C21_CompleteIffLastDayBeforeToday ==
    /\ pcD = "complete" =>
          /\ is_complete <=> toordinal(LastCalendarDay(year, month)) < toordinal(today)
          /\ today = LastCalendarDay(year, month) => ~is_complete
    /\ pcD = "months" =>
          \A k \in 1 .. Len(months) :
              /\ months[k].is_complete <=>
                    toordinal(LastCalendarDay(months[k].year, months[k].month))
                        < toordinal(today)
              /\ months[k].display_name.in_progress <=> ~months[k].is_complete

\* is_month_complete(2024, 8) asked on 31 August 2024 answers False
C21_Witness ==
    /\ pcD = "complete" /\ year = 2024 /\ month = 8
    /\ today = <<2024, 8, 31>> /\ ~is_complete

\* one day later it answers True
C21_CompleteOnFirstOfNext ==
    /\ pcD = "complete" /\ year = 2024 /\ month = 8
    /\ today = <<2024, 9, 1>> /\ is_complete

\* get_available_months on 31 August 2024 lists August 2024 as in progress
C21_MonthsInProgress ==
    /\ pcD = "months" /\ today = <<2024, 8, 31>> /\ Len(months) = 1
    /\ months[1].year = 2024 /\ months[1].month = 8 /\ ~months[1].is_complete

----------------------------------------------------------------------------
(* C22: one row per currency *)

\* C22: whatever the importer has stored, the summary returned by
\* create_monthly_rate_summary has at most one row per target currency, and so
\* have the closing rates and the averages it was merged from.
C22_OneSummaryRowPerCurrency ==
    \A i \in 1 .. Len(CurrencyOrder) :
        LET c == CurrencyOrder[i]
        IN  /\ pcD = "summary" => Cardinality(SummaryRowsOf(c)) <= 1
            /\ pcD \in {"closing", "summary"} => Cardinality(ClosingRowsOf(c)) <= 1
            /\ pcD \in {"averages", "summary_avg", "summary"}
                  => Cardinality(AverageRowsOf(c)) <= 1

\* the EUR record of 2024-08-30 was stored with the rate 1/1.17, averaged, then
\* replaced by one with the rate 0.8 before the closing rates were read: the
\* summary still has one EUR row
C22_Witness ==
    /\ pcD = "summary" /\ ~st_error
    /\ Cardinality(SummaryRowsOf("EUR")) = 1
    /\ \A k \in SummaryRowsOf("EUR") :
          /\ summary[k].closing_rate = Norm(4, 5)
          /\ summary[k].average_rate = Round(Norm(100, 117), RateDecimals)
          /\ summary[k].data_points = One

----------------------------------------------------------------------------
(* C23: what is rounded *)

\* create_monthly_rate_summary has returned without error and the averages it
\* read are those of the store as it is: no record of the span was added or
\* changed between its two reads
SummaryOfStore ==
    /\ pcD = "summary" /\ ~st_error
    /\ avg_rates = calculate_monthly_averages(store, year, month, currencies)

\* the stored rate of the record that supplied the closing rate of a currency
ClosingStored(c) ==
    LET r == CHOOSE x \in StoredAt(LastWorkingDayOf(year, month), c) : TRUE
    IN  r.rate

\* the rows of the summary that have an average and a closing rate
BothSides == {k \in 1 .. Len(summary) :
                 ~isna(summary[k].average_rate) /\ ~isna(summary[k].closing_rate)}

\* C23 as claimed: every field is rounded once, from the unrounded stored
\* rates: average_rate is the mean rounded to 6 decimals, rate_variance is
\* (stored closing rate - mean) rounded to 6 decimals, variance_percent is
\* 100 * (stored closing rate - mean) / mean rounded to 2 decimals.
C23_RoundedOnceFromUnrounded ==
    SummaryOfStore =>
        \A k \in BothSides :
            LET c == summary[k].target_currency
                mean == MeanOver(SpanRows(c), "rate")
                diff == FSub(ClosingStored(c), mean)
            IN  /\ summary[k].average_rate = Round(mean, RateDecimals)
                /\ summary[k].rate_variance = Round(diff, RateDecimals)
                /\ summary[k].variance_percent
                      = Round(FDiv(FMul(Norm(100, 1), diff), mean), PercentDecimals)

\* a table of ordinary rates: GBP 1.17 on both days, JPY 124 and then 132, so
\* that the stored JPY rates are 105.982905... and 112.820512...
RoundingRows ==
    { [Date |-> <<2024, 8, 1>>,
       cells |-> Cells(Norm(117, 100), NaN, Norm(124, 1), NaN)],
      [Date |-> <<2024, 8, 30>>,
       cells |-> Cells(Norm(117, 100), NaN, Norm(132, 1), NaN)] }

RoundingTables ==
    {[columns |-> {"GBP", "USD", "JPY"}, rows |-> rs] :
        rs \in SeqsUpTo(RoundingRows, MaxFeedRows)}

RoundingInit ==
    /\ year = StartYear /\ month = 8
    /\ working_days = << >> /\ calls = 0
    /\ target_date = NoDate /\ next_day = NoDate /\ loop_count = 0
    /\ pcI = "downloaded" /\ df \in RoundingTables /\ converted_df = None
    /\ store = EmptyBag /\ last_upsert = {} /\ ingested = NoIngest
    /\ pcD = "idle" /\ currencies = NoCurrencies
    /\ avg_rates = << >> /\ closing_rates = << >> /\ summary = << >>
    /\ st_error = FALSE
    /\ rates_range = NoRange /\ stored_rates = << >>
    /\ today = NoDate /\ is_complete = FALSE /\ months = << >>

SpecRounding == RoundingInit /\ [][AfterDownloadNext]_vars

\* C23 (amended): the averaging works on the unrounded stored rates and its
\* result is rounded once: average_rate is the mean rounded to 6 decimals.  The
\* other fields are computed from rounded fields and rounded again: closing_rate
\* is the stored closing rate rounded to 6 decimals, rate_variance is
\* (closing_rate - average_rate) rounded to 6 decimals and, when average_rate is
\* not zero, variance_percent is 100 * rate_variance / average_rate rounded to 2
\* decimals.
C23_AverageOfUnroundedRestOfRounded ==
    SummaryOfStore =>
        \A k \in BothSides :
            LET c == summary[k].target_currency
                mean == MeanOver(SpanRows(c), "rate")
                average_rate == Round(mean, RateDecimals)
                closing_rate == Round(ClosingStored(c), RateDecimals)
                rate_variance == Round(FSub(closing_rate, average_rate), RateDecimals)
            IN  /\ summary[k].average_rate = average_rate
                /\ summary[k].closing_rate = closing_rate
                /\ summary[k].rate_variance = rate_variance
                /\ ~IsZero(average_rate) =>
                      summary[k].variance_percent
                         = Round(FDiv(FMul(Norm(100, 1), rate_variance), average_rate),
                                 PercentDecimals)

\* JPY: mean 109.401709401..., stored closing rate 112.820512820...: the summary
\* has average_rate 109.401709, closing_rate 112.820513, rate_variance 3.418804
\* (3.418803 from the unrounded values) and variance_percent 3.13 (3.12)
C23_Witness ==
    /\ SummaryOfStore
    /\ \E k \in BothSides :
          /\ summary[k].target_currency = "JPY"
          /\ summary[k].average_rate = Norm(109401709, 1000000)
          /\ summary[k].closing_rate = Norm(112820513, 1000000)
          /\ summary[k].rate_variance = Norm(3418804, 1000000)
          /\ summary[k].variance_percent = Norm(313, 100)
          /\ Round(FSub(ClosingStored("JPY"), MeanOver(SpanRows("JPY"), "rate")),
                   RateDecimals) = Norm(3418803, 1000000)

----------------------------------------------------------------------------
(* C24: what a read sees of an ingestion *)

\* the records an ingestion may upsert: those the converter emits for a row of
\* the feed (it converts a table row by row), each with the rate and the
\* inverse_rate of one upsert
Upsertable ==
    UNION {{res.data[i] : i \in 1 .. Len(res.data)} :
              res \in {process_ecb_csv_data([columns |-> {"GBP", "USD", "JPY"},
                                              rows |-> <<row>>]) : row \in FeedRows}}

\* the sets of upsertable records of a currency inside the span of the month,
\* one record at most for a key
OnePerKey(S) == \A r1, r2 \in S : Key(r1) = Key(r2) => r1 = r2

ObservableSets(c) ==
    LET first == FirstWorkingDayOf(year, month)
        last == LastWorkingDayOf(year, month)
    IN  {S \in SUBSET {r \in Upsertable :
                          /\ r.target_currency = c
                          /\ DateLE(first, r.date) /\ DateLE(r.date, last)} :
            S # {} /\ OnePerKey(S)}

\* C24: however the commit of an ingestion falls among the reads, a read sees
\* for a key no record or one complete record, the old or the new one.  Each
\* closing row is one record as it was last upserted for its key, rate and
\* inverse_rate together, and there is one row at most for a currency; each
\* average row is computed over a set of complete upserted records with one
\* record for a key: data_points is the number of keys and average_rate and
\* average_inverse_rate are the means over that same set.
C24_ReadsSeeCompleteRecords ==
    /\ (pcD \in {"closing", "summary"}) =>
          \A k \in 1 .. Len(closing_rates) :
              /\ \E r \in last_upsert :
                    /\ Key(r) = <<closing_rates[k].closing_date, "GBP",
                                  closing_rates[k].target_currency>>
                    /\ closing_rates[k].closing_rate = Round(r.rate, RateDecimals)
                    /\ closing_rates[k].closing_inverse_rate
                          = Round(r.inverse_rate, RateDecimals)
              /\ Cardinality(ClosingRowsOf(closing_rates[k].target_currency)) = 1
    /\ (pcD \in {"averages", "summary_avg", "summary"}) =>
          \A k \in 1 .. Len(avg_rates) :
              \E S \in ObservableSets(avg_rates[k].target_currency) :
                  /\ avg_rates[k].data_points = Cardinality(S)
                  /\ avg_rates[k].first_date = MinDate({r.date : r \in S})
                  /\ avg_rates[k].last_date = MaxDate({r.date : r \in S})
                  /\ avg_rates[k].average_rate
                        = Round(MeanOver(S, "rate"), RateDecimals)
                  /\ avg_rates[k].average_inverse_rate
                        = Round(MeanOver(S, "inverse_rate"), RateDecimals)

\* the averages were read with the EUR record of 2024-08-30 at rate 1/1.17 and
\* inverse_rate 1.17, then an ingestion replaced it and the closing rates were
\* read: they show the new record whole, rate 0.8 with inverse_rate 1.25
C24_Witness ==
    /\ pcD = "summary" /\ ~st_error
    /\ \E k \in AverageRowsOf("EUR") :
          /\ avg_rates[k].data_points = 1
          /\ avg_rates[k].average_rate = Round(Norm(100, 117), RateDecimals)
          /\ avg_rates[k].average_inverse_rate = Norm(117, 100)
    /\ \E k \in ClosingRowsOf("EUR") :
          /\ closing_rates[k].closing_rate = Norm(4, 5)
          /\ closing_rates[k].closing_inverse_rate = Norm(5, 4)

----------------------------------------------------------------------------
(* C25: the writer of the store *)

\* C25: a step of get_stored_rates, calculate_monthly_averages,
\* get_closing_rate or create_monthly_rate_summary leaves the content of the
\* store as it was, whether it returns rows, an empty result or reports an
\* error; the content changes only in the step of store_ecb_data that ends a
\* run of the importer, and that step changes no result of the dashboard.
C25_OnlyIngestionWrites ==
    [][ /\ (pcD' # pcD \/ dashVars' # dashVars) =>
              (store' = store /\ last_upsert' = last_upsert)
        /\ store' # store =>
              /\ pcI = "processed" /\ pcI' = "idle"
              /\ store' = store_ecb_data(store, converted_df).st
              /\ dashVars' = dashVars ]_vars

\* create_monthly_rate_summary has returned rows from a store that holds
\* records
C25_Witness ==
    /\ pcD = "summary" /\ ~st_error /\ Len(summary) > 0
    /\ store # EmptyBag /\ DOMAIN store = last_upsert

\* get_stored_rates has hit an error, the store holds its records
C25_ErrorCase ==
    /\ pcD = "stored" /\ st_error /\ stored_rates = << >>
    /\ store # EmptyBag /\ DOMAIN store = last_upsert

\* get_closing_rate has returned an empty result, the store holds its records
C25_EmptyCase ==
    /\ pcD = "closing" /\ ~st_error /\ closing_rates = << >>
    /\ store # EmptyBag /\ DOMAIN store = last_upsert

----------------------------------------------------------------------------
(* C26: the closing currencies are among the averaged ones *)

\* the currencies of a DataFrame
CurrenciesOf(rows) == {rows[k].target_currency : k \in 1 .. Len(rows)}

----------------------------------------------------------------------------
(* C27: a commit between the two reads of the summary *)

\* the rows of the summary that have a closing rate
WithClosing == {k \in 1 .. Len(summary) : ~isna(summary[k].closing_rate)}

\* C27 as claimed: whatever is committed between the two reads of
\* create_monthly_rate_summary, the average of each row that has a closing
\* rate includes the record that supplied the closing rate: data_points is at
\* least 1 and the closing date lies within first_date .. last_date.
C27_SummaryOfOneStoreState ==
    (pcD = "summary" /\ ~st_error) =>
        \A k \in WithClosing :
            /\ ~isna(summary[k].data_points)
            /\ \E a \in AverageRowsOf(summary[k].target_currency) :
                  /\ avg_rates[a].data_points >= 1
                  /\ DateLE(avg_rates[a].first_date, summary[k].closing_date)
                  /\ DateLE(summary[k].closing_date, avg_rates[a].last_date)

\* C27 (amended): the closing rates of the summary are those of records of the
\* store as the second read finds it, the averages those read before; when the store is
\* the same at both reads, the average of each row that has a closing rate
\* includes the record that supplied it (data_points at least 1, the closing
\* date within first_date .. last_date, the record among those averaged).
C27_ConsistentWhenStoreUnchanged ==
    /\ (pcD = "summary" /\ ~st_error) =>
          \A k \in 1 .. Len(closing_rates) :
              \E r \in StoredAt(closing_rates[k].closing_date,
                                closing_rates[k].target_currency) :
                  closing_rates[k].closing_rate = Round(r.rate, RateDecimals)
    /\ (WithClosing # {} /\ SummaryOfStore) =>
          \A k \in WithClosing :
              /\ ~isna(summary[k].data_points)
              /\ \E a \in AverageRowsOf(summary[k].target_currency) :
                    /\ avg_rates[a].data_points >= 1
                    /\ DateLE(avg_rates[a].first_date, summary[k].closing_date)
                    /\ DateLE(summary[k].closing_date, avg_rates[a].last_date)
              /\ StoredAt(summary[k].closing_date, summary[k].target_currency)
                    \subseteq SpanRows(summary[k].target_currency)
              /\ StoredAt(summary[k].closing_date, summary[k].target_currency) # {}

\* the store is the same at both reads and EUR has a closing rate: its average
\* is over 2 records from 1 August to 30 August, the closing date
C27_Witness ==
    /\ SummaryOfStore /\ store # EmptyBag
    /\ \E k \in WithClosing :
          /\ summary[k].target_currency = "EUR"
          /\ summary[k].closing_date = <<2024, 8, 30>>
          /\ summary[k].data_points = Norm(2, 1)
          /\ \E a \in AverageRowsOf("EUR") :
                avg_rates[a].first_date = <<2024, 8, 1>>
                   /\ avg_rates[a].last_date = <<2024, 8, 30>>

\* what the code returns when USD is committed for the last working day
\* between the reads: a USD row with a closing rate and null data_points, the
\* averages not being those of the store any more
C27_MixedStates ==
    /\ pcD = "summary" /\ ~st_error
    /\ avg_rates # calculate_monthly_averages(store, year, month, currencies)
    /\ \E k \in WithClosing :
          summary[k].target_currency = "USD" /\ isna(summary[k].data_points)

----------------------------------------------------------------------------
(* C28: the stages of main *)

\* the stage that may follow a stage of main, "idle" being: main has returned
NextStage(pc) ==
    CASE pc = "idle" -> "created"
      [] pc = "created" -> "downloaded"
      [] pc = "downloaded" -> "processed"
      [] pc = "processed" -> "idle"

\* C28: main runs create_database, the download, process_ecb_csv_data and
\* store_ecb_data in this order, each after the one before has succeeded, and
\* otherwise returns; records are inserted or replaced only by store_ecb_data,
\* reached with a downloaded table that has the GBP column and converted to at
\* least one record.  When database creation or the download fails, the GBP
\* column is absent or no record comes out of the conversion, the run ends
\* with the store as it was.
C28_StoreOnlyAfterEveryStage ==
    [][ /\ pcI' # pcI => (pcI' = NextStage(pcI) \/ pcI' = "idle")
        /\ pcI' = "processed" =>
              /\ "GBP" \in df.columns
              /\ ~converted_df'.none
              /\ converted_df' = process_ecb_csv_data(df')
        /\ store' # store =>
              /\ pcI = "processed" /\ pcI' = "idle"
              /\ "GBP" \in df.columns
              /\ ~converted_df.none /\ Len(converted_df.data) > 0
        /\ (pcI' = "idle" /\ pcI \in {"created", "downloaded"}) => store' = store
        /\ (pcI = "processed" /\ Len(converted_df.data) = 0) => store' = store ]_vars

\* a table without the GBP column has been downloaded while the store holds
\* records: the run is about to end without store_ecb_data
C28_Witness ==
    /\ pcI = "downloaded" /\ "GBP" \notin df.columns
    /\ process_ecb_csv_data(df).none
    /\ store # EmptyBag

\* the conversion has given no record (every row has a null GBP cell or none
\* is there): store_ecb_data is called and returns False at its first check
C28_NoRecord ==
    /\ pcI = "processed" /\ Len(converted_df.data) = 0
    /\ ~store_ecb_data(store, converted_df).ok
    /\ store # EmptyBag

----------------------------------------------------------------------------
(* C29: the zero-rate guard *)

\* C29: no triangulated record the converter emits has the rate 0, so the
\* else branch of the guard is not taken, and no record emitted or stored has
\* the inverse_rate 0.
C29_ZeroGuardNeverTaken ==
    /\ pcI = "processed" =>
          \A i \in 1 .. Len(converted_df.data) :
              /\ converted_df.data[i].target_currency # "EUR"
                    => ~IsZero(converted_df.data[i].rate)
              /\ ~IsZero(converted_df.data[i].inverse_rate)
    /\ \A r \in DOMAIN store :
          /\ r.target_currency # "EUR" => ~IsZero(r.rate)
          /\ ~IsZero(r.inverse_rate)

\* what the code does when the GBP cell of 2024-08-02 is infinite: the USD
\* rate is 1.1 / inf = 0, the guard gives the inverse_rate 0, and the record is
\* stored
C29_GuardTaken ==
    \E r \in StoredAt(<<2024, 8, 2>>, "USD") :
        /\ r.rate = Zero /\ r.inverse_rate = Zero
        /\ inverse_of(r.rate) = Zero

----------------------------------------------------------------------------
(* C30: an empty list of currencies *)

\* the argument currencies is an empty list
EmptyListGiven == ~currencies.none /\ currencies.list = << >>

\* the records of the store with a date in the range asked of get_stored_rates
InRange ==
    {r \in DOMAIN store :
        /\ rates_range.start # NoDate => DateLE(rates_range.start, r.date)
        /\ rates_range.end # NoDate => DateLE(r.date, rates_range.end)}

\* the rows of get_stored_rates for a currency
StoredRowsOf(c) == {k \in 1 .. Len(stored_rates) : stored_rates[k].target_currency = c}

\* C30: called with an empty list of currencies, calculate_monthly_averages,
\* get_closing_rate and get_stored_rates return what they return without a
\* list: a row for every currency that has a record in the span of the month,
\* on the last working day, in the range of dates.
C30_EmptyListIsNoList ==
    (EmptyListGiven /\ ~st_error) =>
        \A i \in 1 .. Len(CurrencyOrder) :
            LET c == CurrencyOrder[i]
            IN  /\ pcD = "averages" => (AverageRowsOf(c) # {} <=> SpanRows(c) # {})
                /\ pcD = "closing" =>
                      (ClosingRowsOf(c) # {}
                          <=> StoredAt(LastWorkingDayOf(year, month), c) # {})
                /\ pcD = "stored" =>
                      /\ StoredRowsOf(c) # {}
                            <=> (\E r \in InRange : r.target_currency = c)
                      /\ {stored_rates[k] : k \in 1 .. Len(stored_rates)} = InRange
                      /\ Len(stored_rates) = Cardinality(InRange)

\* get_stored_rates(currencies=[]) on a store with EUR, USD and JPY returns
\* rows of the three
C30_Witness ==
    /\ pcD = "stored" /\ EmptyListGiven /\ ~st_error
    /\ StoredRowsOf("EUR") # {} /\ StoredRowsOf("USD") # {} /\ StoredRowsOf("JPY") # {}

\* calculate_monthly_averages(2024, 8, []) returns the three currencies too
C30_AveragesOfAll ==
    /\ pcD = "averages" /\ EmptyListGiven /\ ~st_error
    /\ AverageRowsOf("EUR") # {} /\ AverageRowsOf("USD") # {} /\ AverageRowsOf("JPY") # {}

====
